---- MODULE Spec2Model ----
(***************************************************************************)
(* A model of backup.c of nvidia-installer: the backup log written while   *)
(* a driver is installed, and the uninstall that reads it back.            *)
(*                                                                         *)
(* A C string is a sequence of one-character strings; a text file is the   *)
(* sequence of its lines.  The 32-bit unsigned types (uint32, uid_t,       *)
(* gid_t) are pairs <<hi, lo>> of 16-bit limbs, so that values at and      *)
(* above 2^31 are represented exactly.  long is 64 bits (LP64).            *)
(***************************************************************************)
EXTENDS Integers, Sequences, FiniteSets, TLC

\* ------------------------------------------------------------- bounds

\* the most records the installer appends to the log in one session
MaxRecords == 3

\* the most changes made to the filesystem behind the installer's back
MaxTamper == 1

\* the most regular files one process backs up
MaxSlots == 3

\* the longest version string of a package
MaxVersionLen == 3

\* ------------------------------------------------- program constants

INSTALLED_FILE == 0
INSTALLED_SYMLINK == 1
BACKED_UP_SYMLINK == 2
BACKED_UP_FILE_NUM == 100

\* S_IRUSR|S_IWUSR = 0600 and S_IRUSR|S_IWUSR|S_IXUSR = 0700
BACKUP_LOG_PERMS == 384
BACKUP_DIRECTORY_PERMS == 448
\* S_IRWXU|S_IRWXG|S_IRWXO = 0777
PERM_MASK == 511

\* file type bits of st_mode: S_IFREG = 0100000, S_IFLNK = 0120000, S_IFDIR = 0040000
S_IFREG == 32768
S_IFLNK == 40960
S_IFDIR == 16384
S_IFIFO == 4096

\* ------------------------------------------------- characters, numbers

Digits == <<"0", "1", "2", "3", "4", "5", "6", "7", "8", "9">>

isdigit(c) == \E i \in 1..10 : Digits[i] = c

isspace(c) == c = " "

DigitVal(c) == (CHOOSE i \in 1..10 : Digits[i] = c) - 1

Limb == 256 * 256

\* the 32-bit value of a small natural number
U32(n) == <<n \div Limb, n % Limb>>

\* v * 10 + d, modulo 2^32
MulAdd10(v, d) ==
    LET lo == v[2] * 10 + d
    IN  <<(v[1] * 10 + (lo \div Limb)) % Limb, lo % Limb>>

\* quotient and remainder of v by 10
DivMod10(v) ==
    LET t == (v[1] % 10) * Limb + v[2]
    IN  [q |-> <<v[1] \div 10, t \div 10>>, r |-> t % 10]

\* 2^32 - v, modulo 2^32
Neg32(v) ==
    <<(Limb - 1 - v[1] + (IF v[2] = 0 THEN 1 ELSE 0)) % Limb, (Limb - v[2]) % Limb>>

RECURSIVE FmtU(_)
\* printf("%u") of a 32-bit unsigned value
FmtU(v) ==
    LET dm == DivMod10(v)
    IN  IF dm.q = <<0, 0>> THEN <<Digits[dm.r + 1]>>
        ELSE Append(FmtU(dm.q), Digits[dm.r + 1])

\* printf("%d") handed a 32-bit unsigned value: its bits are read as an int
FmtD(v) == IF v[1] >= 32768 THEN <<"-">> \o FmtU(Neg32(v)) ELSE FmtU(v)

RECURSIVE OctDigits(_)
OctDigits(n) ==
    IF n < 8 THEN <<Digits[n + 1]>> ELSE Append(OctDigits(n \div 8), Digits[(n % 8) + 1])

\* printf("%04o")
FmtO4(n) ==
    LET d == OctDigits(n)
    IN  IF Len(d) >= 4 THEN d ELSE [i \in 1..(4 - Len(d)) |-> "0"] \o d

RECURSIVE strtoul(_, _)
\* strtoul(s, NULL, 10) / strtol(s, NULL, 10) of a run of digits, stored into
\* a 32-bit unsigned variable; acc is the value read so far
strtoul(s, acc) ==
    IF s = <<>> \/ ~isdigit(Head(s)) THEN acc
    ELSE strtoul(Tail(s), MulAdd10(acc, DigitVal(Head(s))))

RECURSIVE strtol10(_, _)
\* strtol(s, NULL, 10) stored into an int
strtol10(s, acc) ==
    IF s = <<>> \/ ~isdigit(Head(s)) THEN acc
    ELSE strtol10(Tail(s), acc * 10 + DigitVal(Head(s)))

RECURSIVE strtol8(_, _)
\* strtol(s, NULL, 8): stops at the first character that is no octal digit
strtol8(s, acc) ==
    IF s = <<>> \/ ~isdigit(Head(s)) \/ DigitVal(Head(s)) > 7 THEN acc
    ELSE strtol8(Tail(s), acc * 8 + DigitVal(Head(s)))

\* ------------------------------------------------------ the log codec

\* a NULL char pointer, and the empty string
NoLine == <<>>

Zero32 == <<0, 0>>

\* get_next_line(): the line at position c of a file, NULL at the end of the
\* file or at an empty line
get_next_line(lines, c) ==
    IF c > Len(lines) THEN NoLine ELSE lines[c]

RECURSIVE SkipToColon(_, _)
\* a scan for the ':' that lets any character precede it
SkipToColon(buf, i) ==
    IF i > Len(buf) THEN 0
    ELSE IF buf[i] = ":" THEN i
    ELSE SkipToColon(buf, i + 1)

RECURSIVE SkipUntilColon(_, _)
\* the index of the first ':' of buf at or after i when only digits precede
\* it; 0 when a non-digit or the end of the string comes first
SkipUntilColon(buf, i) ==
    IF i > Len(buf) THEN 0
    ELSE IF buf[i] = ":" THEN i
    ELSE IF ~isdigit(buf[i]) THEN 0
    ELSE SkipUntilColon(buf, i + 1)

RECURSIVE SkipSpace(_, _)
SkipSpace(buf, i) ==
    IF i <= Len(buf) /\ isspace(buf[i]) THEN SkipSpace(buf, i + 1) ELSE i

RECURSIVE DigitRunEnd(_, _)
\* while ((*c != '\0') && (isdigit(*c))) c++;
DigitRunEnd(buf, i) ==
    IF i <= Len(buf) /\ isdigit(buf[i]) THEN DigitRunEnd(buf, i + 1) ELSE i

parse_first_line(buf) ==
    LET c == SkipUntilColon(buf, 1)
    IN  IF c = 0 THEN [ok |-> FALSE, num |-> 0, filename |-> NoLine]
        ELSE [ok |-> TRUE,
              num |-> strtol10(SubSeq(buf, 1, c - 1), 0),
              filename |-> SubSeq(buf, SkipSpace(buf, c + 1), Len(buf))]

ParseFailed == [ok |-> FALSE, crc |-> Zero32, mode |-> 0, uid |-> Zero32, gid |-> Zero32]

parse_mode_uid_gid(buf) ==
    LET e1 == DigitRunEnd(buf, 1)
        e2 == DigitRunEnd(buf, e1 + 1)
        e3 == DigitRunEnd(buf, e2 + 1)
    IN  IF e1 > Len(buf) THEN ParseFailed
        ELSE IF e2 > Len(buf) THEN ParseFailed
        ELSE [ok |-> TRUE, crc |-> Zero32,
              mode |-> strtol8(SubSeq(buf, 1, e1 - 1), 0),
              uid |-> strtoul(SubSeq(buf, e1 + 1, e2 - 1), Zero32),
              gid |-> strtoul(SubSeq(buf, e2 + 1, e3 - 1), Zero32)]

parse_crc_mode_uid_gid(buf) ==
    LET e0 == DigitRunEnd(buf, 1)
        e1 == DigitRunEnd(buf, e0 + 1)
        e2 == DigitRunEnd(buf, e1 + 1)
        e3 == DigitRunEnd(buf, e2 + 1)
    IN  IF e0 > Len(buf) THEN ParseFailed
        ELSE IF e1 > Len(buf) THEN ParseFailed
        ELSE IF e2 > Len(buf) THEN ParseFailed
        ELSE [ok |-> TRUE,
              crc |-> strtoul(SubSeq(buf, 1, e0 - 1), Zero32),
              mode |-> strtol8(SubSeq(buf, e0 + 1, e1 - 1), 0),
              uid |-> strtoul(SubSeq(buf, e1 + 1, e2 - 1), Zero32),
              gid |-> strtoul(SubSeq(buf, e2 + 1, e3 - 1), Zero32)]

parse_crc(buf) ==
    [ok |-> TRUE, crc |-> strtoul(SubSeq(buf, 1, DigitRunEnd(buf, 1) - 1), Zero32)]

\* a BackupLogEntry after memset(0), with num, filename and ok set
BackupLogEntry(num, filename) ==
    [num |-> num, filename |-> filename, target |-> NoLine, crc |-> Zero32,
     mode |-> 0, uid |-> Zero32, gid |-> Zero32, ok |-> TRUE]

\* goto parse_error: b is freed and NULL is returned
ParseError(line_num) == [ok |-> FALSE, e |-> <<>>, line_num |-> line_num]

RECURSIVE ReadEntries(_, _, _, _)
\* the while(1) loop of read_backup_log_file(): c is the position in the
\* file, e the entries read so far
ReadEntries(lines, c, e, line_num) ==
    LET line == get_next_line(lines, c)
        first == parse_first_line(line)
        ent == BackupLogEntry(first.num, first.filename)
        l2 == get_next_line(lines, c + 1)
        l3 == get_next_line(lines, c + 2)
    IN  IF line = NoLine THEN [ok |-> TRUE, e |-> e, line_num |-> line_num]
        ELSE IF ~first.ok THEN ParseError(line_num)
        ELSE IF first.num = INSTALLED_FILE THEN
            IF l2 = NoLine THEN ParseError(line_num + 1)
            ELSE ReadEntries(lines, c + 2,
                             Append(e, [ent EXCEPT !.crc = parse_crc(l2).crc]),
                             line_num + 2)
        ELSE IF first.num = INSTALLED_SYMLINK THEN
            IF l2 = NoLine THEN ParseError(line_num + 1)
            ELSE ReadEntries(lines, c + 2, Append(e, [ent EXCEPT !.target = l2]),
                             line_num + 2)
        ELSE IF first.num = BACKED_UP_SYMLINK THEN
            IF l2 = NoLine THEN ParseError(line_num + 1)
            ELSE IF l3 = NoLine THEN ParseError(line_num + 2)
            ELSE LET m == parse_mode_uid_gid(l3)
                 IN  IF ~m.ok THEN ParseError(line_num + 3)
                     ELSE ReadEntries(lines, c + 3,
                                      Append(e, [ent EXCEPT !.target = l2, !.mode = m.mode,
                                                            !.uid = m.uid, !.gid = m.gid]),
                                      line_num + 3)
        ELSE IF first.num < BACKED_UP_FILE_NUM THEN ParseError(line_num + 1)
        ELSE IF l2 = NoLine THEN ParseError(line_num + 1)
        ELSE LET m == parse_crc_mode_uid_gid(l2)
             IN  IF ~m.ok THEN ParseError(line_num + 2)
                 ELSE ReadEntries(lines, c + 2,
                                  Append(e, [ent EXCEPT !.crc = m.crc, !.mode = m.mode,
                                                        !.uid = m.uid, !.gid = m.gid]),
                                  line_num + 2)

\* ------------------------------------------------------ the filesystem

\* the paths the installer installs to
P1 == <<"/", "p">>
P2 == <<"/", "q">>
Paths == {P1, P2}

\* symlink targets: TO is the target of a symlink that predates the
\* installation, TA the target the package gives its symlinks, TB a target an
\* outside change gives; TD is a name at which nothing exists
TO == <<"/", "o">>
TA == <<"/", "a">>
TB == <<"/", "b">>
TD == <<"/", "d">>

\* file contents: CA predates the installation, CB is the package's file, CX
\* is written by an outside change
CA == <<"A">>
CB == <<"B">>
CX == <<"X">>

\* compute_crc(): the checksum of a content (CB's is above 2^31)
Crc(content) ==
    IF content = CA THEN U32(7)
    ELSE IF content = CB THEN <<45776, 24064>>
    ELSE U32(9)

\* the owner "nobody" of some systems, 4294967294
Nobody == <<65535, 65534>>

Obj(kind, data, mode, uid, gid) ==
    [kind |-> kind, data |-> data, mode |-> mode, uid |-> uid, gid |-> gid]

NoObj == Obj("none", <<>>, 0, Zero32, Zero32)

\* what is at the paths before the installation
OrigFile == Obj("reg", CA, S_IFREG + 420, Zero32, Zero32)
OrigLink == Obj("lnk", TO, S_IFLNK + PERM_MASK, Zero32, Zero32)
NobodyFile == Obj("reg", CA, S_IFREG + 384, Nobody, Nobody)
Directory == Obj("dir", <<>>, S_IFDIR + 493, Zero32, Zero32)
Fifo == Obj("fifo", <<>>, S_IFIFO + 420, Zero32, Zero32)

\* what the installer puts at a path, as root
PkgFile == Obj("reg", CB, S_IFREG + 493, Zero32, Zero32)
PkgLink(t) == Obj("lnk", t, S_IFLNK + PERM_MASK, Zero32, Zero32)

\* the directories the installer creates
DX == <<"/", "x">>
DXY == <<"/", "x", "/", "y">>
DirPaths == {DX, DXY}

\* the lists of directories log_mkdir() is handed
MkdirLists == {<<DX, DXY>>, <<DXY, DX>>}

BACKUP_DIRECTORY ==
    <<"$", "P", "K", "G", "/", "v", "a", "r", "/", "l", "i", "b", "/",
      "n", "v", "i", "d", "i", "a">>

\* umask of the installer's process: 022
Umask == 18

\* the Backup Store: BACKUP_DIRECTORY (exists, mode), BACKUP_LOG (log, logMode,
\* lines), BACKUP_MKDIR_LOG (dirs, dirsLines) and the numbered files (slots)
NoStore ==
    [exists |-> FALSE, mode |-> 0, log |-> FALSE, logMode |-> 0, lines |-> <<>>,
     dirs |-> FALSE, dirsLines |-> <<>>, slots |-> <<>>]

VARIABLES
    fs,                  \* what is at each path
    store,               \* the Backup Store
    backup_file_number,  \* the static counter of do_backup()
    pc,                  \* where the installer or uninstaller stands
    pending,             \* what the installer placed and has not logged yet
    ret,                 \* the value the last call returned
    b,                   \* the BackupInfo entries of the running uninstall
    ok,                  \* what check_backup_log_entries() returned
    removal_failed,
    restore_failed,
    ui,                  \* the messages given to ui_warn/ui_log/ui_error/ui_message
    trace,               \* the filesystem calls of the running uninstall
    orig,                \* fs before the installation
    rec,                 \* what the record operations of the session recorded
    tampers,             \* the number of outside changes made
    tree,                \* the directories the installer creates
    result,              \* what uninstall_existing_driver() returned
    before,              \* fs when the uninstall began
    call,                \* the call of backup.c that led to this state, if one did
    package,             \* the Package handed to init_backup(): version, description
    reported,            \* what get_installed_driver_version_and_descr() gave last
    other                \* backup_file_number of the installer process not running

vars ==
    <<fs, store, backup_file_number, pc, pending, ret, b, ok, removal_failed,
      restore_failed, ui, trace, orig, rec, tampers, tree, result, before, call,
      package, reported, other>>

uninstallVars == <<b, ok, removal_failed, restore_failed, ui, trace, result, before>>

\* what no operation of one installation or uninstall changes
processVars == <<package, reported, other>>

TargetExists(t) == t # TD

\* access(path, F_OK): follows symbolic links
access(p) ==
    \/ fs[p].kind \in {"reg", "dir", "fifo"}
    \/ fs[p].kind = "lnk" /\ TargetExists(fs[p].data)

SlotExists(n) == n \in DOMAIN store.slots

\* a rename() that leaves a file that is already at the new name
KeepSlot(slots, n, f) == IF n \in DOMAIN slots THEN slots ELSE slots @@ (n :> f)

\* store.slots with the file f at number n
PutSlot(slots, n, f) == [k \in (DOMAIN slots) \cup {n} |-> IF k = n THEN f ELSE slots[k]]

DropSlot(slots, n) == [k \in (DOMAIN slots) \ {n} |-> slots[k]]

\* no call of backup.c led to the state
NoCall == [op |-> "none", filename |-> <<>>, kind |-> "none"]

\* the version and the description of the package being installed
PkgVersion == <<"1", "0", "5", ".", "9", ".", "1", "7">>
PkgDescription == <<"N", "V">>

\* get_installed_driver_version_and_descr() has not been called
NoReport == [ret |-> FALSE, version |-> <<>>, descr |-> <<>>]

\* the state before the first call of backup.c, the process at start, the
\* package's version one of versions
InitOf(start, versions) ==
    /\ package \in [version : versions, description : {PkgDescription}]
    /\ reported = NoReport
    /\ other = BACKED_UP_FILE_NUM
    /\ fs \in [Paths -> {NoObj, OrigFile, OrigLink, NobodyFile, Directory, Fifo}]
    /\ fs[P1] \in {NoObj, OrigFile, OrigLink}
    /\ fs[P2] \in {NoObj, NobodyFile, Directory, Fifo}
    /\ store = NoStore
    /\ backup_file_number = BACKED_UP_FILE_NUM
    /\ pc = start
    /\ pending = <<>>
    /\ ret = TRUE
    /\ b = <<>>
    /\ ok = TRUE
    /\ removal_failed = FALSE
    /\ restore_failed = FALSE
    /\ ui = {}
    /\ trace = <<>>
    /\ orig = fs
    /\ rec = <<>>
    /\ tampers = 0
    /\ tree = [d \in DirPaths |-> "none"]
    /\ result = TRUE
    /\ before = fs
    /\ call = NoCall

InitState(start) == InitOf(start, {PkgVersion})

Init == InitState("Start")

\* ------------------------------------------------------ the recorder

\* the string with nothing taken out
AllCharacters(str) == str

RECURSIVE OnlyDigits(_)
\* for (s = t = scratch; *t; t++) if (isdigit(*t)) *s++ = *t;
OnlyDigits(str) ==
    IF str = <<>> THEN <<>>
    ELSE IF isdigit(Head(str)) THEN <<Head(str)>> \o OnlyDigits(Tail(str))
    ELSE OnlyDigits(Tail(str))

\* sprintf(version, "1.0-%s (%s)", scratch, str)
create_backwards_compatible_version_string(str) ==
    <<"1", ".", "0", "-">> \o OnlyDigits(str) \o <<" ", "(">> \o str \o <<")">>

\* the installer is in a session init_backup() began ("Install"), or the
\* process calls the operations of backup.c in whatever order ("Recorder")
Recording == pc \in {"Install", "Recorder"}

\* the directory is left as it was, with what it holds
keep_directory(st) == st

\* if (directory_exists(BACKUP_DIRECTORY)) remove_directory(BACKUP_DIRECTORY):
\* the directory goes with everything in it
remove_directory(st) == NoStore

\* init_backup(): remove_directory() and mkdir_recursive() succeed
init_backup ==
    /\ pc \in {"Start", "Recorder"}
    /\ store' = [remove_directory(store) EXCEPT
                    !.exists = TRUE,
                    !.mode = BACKUP_DIRECTORY_PERMS,
                    !.log = TRUE,
                    !.logMode = BACKUP_LOG_PERMS,
                    !.lines = <<create_backwards_compatible_version_string(package.version),
                                package.description>>]
    /\ rec' = <<>>
    /\ ret' = TRUE
    /\ pc' = IF pc = "Start" THEN "Install" ELSE pc
    /\ UNCHANGED <<fs, backup_file_number, pending, orig, tampers, tree>>
    /\ UNCHANGED uninstallVars
    /\ call' = [op |-> "init_backup", filename |-> <<>>, kind |-> "none"]
    /\ UNCHANGED processVars

\* fopen(BACKUP_LOG, "a"): the log is created with 0666 & ~umask when the
\* directory is there and the log is not
AppendLog(st, newLines) ==
    [st EXCEPT !.log = TRUE,
               !.logMode = IF st.log THEN st.logMode ELSE 438 - Umask,
               !.lines = st.lines \o newLines]

\* the number and the name with no ':' between them
FirstLineNoColon(num, filename) == FmtU(U32(num)) \o <<" ">> \o filename

\* fprintf(log, "%d: %s\n", num, filename)
FirstLine(num, filename) == FmtU(U32(num)) \o <<":", " ">> \o filename

\* fprintf(log, "%u %04o %d %d\n", crc, st_mode, st_uid, st_gid)
CrcModeUidGidLine(crc, o) ==
    FmtU(crc) \o <<" ">> \o FmtO4(o.mode) \o <<" ">> \o FmtD(o.uid) \o <<" ">> \o FmtD(o.gid)

\* fprintf(log, "%04o %d %d\n", st_mode, st_uid, st_gid)
ModeUidGidLine(o) ==
    FmtO4(o.mode) \o <<" ">> \o FmtD(o.uid) \o <<" ">> \o FmtD(o.gid)

\* every object that is neither a symbolic link nor a directory
NotLinkOrDir(o) == o.kind \in {"reg", "fifo"}

\* S_ISREG(stat_buf.st_mode)
S_ISREG(o) == o.kind = "reg"

\* S_ISLNK(stat_buf.st_mode)
S_ISLNK(o) == o.kind = "lnk"

\* the number is used again
SameNumber(n) == n

\* backup_file_number++
NextNumber(n) == n + 1

\* lstat() failing with ENOENT is taken as an error
enoent_is_failure == FALSE

\* case ENOENT: ret_val = TRUE
enoent_ret_val == TRUE

\* do_backup(filename); fail says that the environment makes nvrename() or
\* unlink() fail
do_backup(filename, fail) ==
    LET o == fs[filename]
        tmp == backup_file_number
    IN
    /\ Recording
    /\ pending = <<>>
    /\ Len(rec) < MaxRecords
    /\ backup_file_number < BACKED_UP_FILE_NUM + MaxSlots
    /\ fail => (store.exists /\ o.kind \in {"reg", "lnk"})
    /\ IF ~store.exists THEN
            /\ ret' = FALSE
            /\ UNCHANGED <<fs, store, backup_file_number, rec>>
       ELSE IF o.kind = "none" THEN
            /\ ret' = enoent_ret_val
            /\ store' = AppendLog(store, <<>>)
            /\ UNCHANGED <<fs, backup_file_number, rec>>
       ELSE IF S_ISREG(o) /\ ~fail THEN
            /\ fs' = [fs EXCEPT ![filename] = NoObj]
            /\ store' = [AppendLog(store, <<FirstLine(tmp, filename),
                                            CrcModeUidGidLine(Crc(o.data), o)>>)
                            EXCEPT !.slots = PutSlot(store.slots, tmp, o)]
            /\ backup_file_number' = NextNumber(backup_file_number)
            /\ rec' = Append(rec, [BackupLogEntry(tmp, filename) EXCEPT
                                      !.crc = Crc(o.data), !.mode = o.mode,
                                      !.uid = o.uid, !.gid = o.gid])
            /\ ret' = TRUE
       ELSE IF S_ISLNK(o) /\ ~fail THEN
            /\ fs' = [fs EXCEPT ![filename] = NoObj]
            /\ store' = AppendLog(store, <<FirstLine(BACKED_UP_SYMLINK, filename),
                                           o.data, ModeUidGidLine(o)>>)
            /\ rec' = Append(rec, [BackupLogEntry(BACKED_UP_SYMLINK, filename) EXCEPT
                                      !.target = o.data, !.mode = o.mode,
                                      !.uid = o.uid, !.gid = o.gid])
            /\ ret' = TRUE
            /\ UNCHANGED backup_file_number
       ELSE
            /\ ret' = FALSE
            /\ store' = AppendLog(store, <<>>)
            /\ UNCHANGED <<fs, backup_file_number, rec>>
    /\ UNCHANGED <<pc, pending, orig, tampers, tree>>
    /\ UNCHANGED uninstallVars
    /\ call' = [op |-> "do_backup", filename |-> filename, kind |-> fs[filename].kind]
    /\ UNCHANGED processVars

\* the other of two installer processes runs next; each has its own static
\* backup_file_number and nothing keeps them from working on one store
switch_process ==
    /\ pc = "Recorder"
    /\ pending = <<>>
    /\ backup_file_number' = other
    /\ other' = backup_file_number
    /\ call' = [op |-> "switch_process", filename |-> <<>>, kind |-> "none"]
    /\ UNCHANGED <<fs, store, pc, pending, ret, orig, rec, tampers, tree, package, reported>>
    /\ UNCHANGED uninstallVars

\* the installer puts the package's file at a path it has cleared
install_file(filename) ==
    /\ Recording
    /\ pending = <<>>
    /\ Len(rec) < MaxRecords
    /\ fs[filename].kind = "none"
    /\ fs' = [fs EXCEPT ![filename] = PkgFile]
    /\ pending' = <<"file", filename>>
    /\ UNCHANGED <<store, backup_file_number, pc, ret, orig, rec, tampers, tree>>
    /\ UNCHANGED uninstallVars
    /\ call' = NoCall
    /\ UNCHANGED processVars

\* the installer creates a symlink at a path it has cleared
install_symlink(filename, target) ==
    /\ Recording
    /\ pending = <<>>
    /\ Len(rec) < MaxRecords
    /\ fs[filename].kind = "none"
    /\ fs' = [fs EXCEPT ![filename] = PkgLink(target)]
    /\ pending' = <<"link", filename, target>>
    /\ UNCHANGED <<store, backup_file_number, pc, ret, orig, rec, tampers, tree>>
    /\ UNCHANGED uninstallVars
    /\ call' = NoCall
    /\ UNCHANGED processVars

\* compute_crc() of what is at a path: 0 when it cannot be read
compute_crc(filename) ==
    IF fs[filename].kind = "reg" THEN Crc(fs[filename].data) ELSE Zero32

\* log_install_file(filename), called once the file is in place
log_install_file(filename) ==
    /\ Recording
    /\ pending = <<"file", filename>>
    /\ IF ~store.exists THEN
            /\ ret' = FALSE
            /\ UNCHANGED <<store, rec>>
       ELSE
            /\ store' = AppendLog(store, <<FirstLine(INSTALLED_FILE, filename),
                                           FmtU(compute_crc(filename))>>)
            /\ rec' = Append(rec, [BackupLogEntry(INSTALLED_FILE, filename) EXCEPT
                                      !.crc = compute_crc(filename)])
            /\ ret' = TRUE
    /\ pending' = <<>>
    /\ UNCHANGED <<fs, backup_file_number, pc, orig, tampers, tree>>
    /\ UNCHANGED uninstallVars
    /\ call' = [op |-> "log_install_file", filename |-> filename, kind |-> fs[filename].kind]
    /\ UNCHANGED processVars

\* log_create_symlink(filename, target), called once the symlink is made
log_create_symlink(filename, target) ==
    /\ Recording
    /\ pending = <<"link", filename, target>>
    /\ IF ~store.exists THEN
            /\ ret' = FALSE
            /\ UNCHANGED <<store, rec>>
       ELSE
            /\ store' = AppendLog(store, <<FirstLine(INSTALLED_SYMLINK, filename), target>>)
            /\ rec' = Append(rec, [BackupLogEntry(INSTALLED_SYMLINK, filename) EXCEPT
                                      !.target = target])
            /\ ret' = TRUE
    /\ pending' = <<>>
    /\ UNCHANGED <<fs, backup_file_number, pc, orig, tampers, tree>>
    /\ UNCHANGED uninstallVars
    /\ call' = [op |-> "log_create_symlink", filename |-> filename, kind |-> fs[filename].kind]
    /\ UNCHANGED processVars

\* the installation ends
finish_install ==
    /\ pc = "Install"
    /\ pending = <<>>
    /\ pc' = "Idle"
    /\ UNCHANGED <<fs, store, backup_file_number, pending, ret, orig, rec, tampers, tree>>
    /\ UNCHANGED uninstallVars
    /\ call' = NoCall
    /\ UNCHANGED processVars

\* ------------------------------------------------ outside changes

\* the file at a path is rewritten, a symlink is pointed elsewhere, or the
\* path is removed, by something other than the installer
tamper_path(filename, o) ==
    /\ pc = "Idle"
    /\ tampers < MaxTamper
    /\ fs[filename].kind \in {"reg", "lnk"}
    /\ o # fs[filename]
    /\ fs' = [fs EXCEPT ![filename] = o]
    /\ tampers' = tampers + 1
    /\ UNCHANGED <<store, backup_file_number, pc, pending, ret, orig, rec, tree>>
    /\ UNCHANGED uninstallVars
    /\ UNCHANGED call
    /\ UNCHANGED processVars

\* a numbered file of the Backup Store is rewritten or removed
tamper_slot(n, remove) ==
    /\ pc = "Idle"
    /\ tampers < MaxTamper
    /\ SlotExists(n)
    /\ store' = [store EXCEPT !.slots =
                    IF remove THEN DropSlot(store.slots, n)
                    ELSE PutSlot(store.slots, n, [store.slots[n] EXCEPT !.data = CX])]
    /\ tampers' = tampers + 1
    /\ UNCHANGED <<fs, backup_file_number, pc, pending, ret, orig, rec, tree>>
    /\ UNCHANGED uninstallVars
    /\ UNCHANGED call
    /\ UNCHANGED processVars

\* the number of lines of the record of an entry
RecordLines(ent) == IF ent.num = BACKED_UP_SYMLINK THEN 3 ELSE 2

RECURSIVE RecordStart(_, _)
\* the line of the log where the record of entry i of r begins
RecordStart(r, i) ==
    IF i = 1 THEN 3 ELSE RecordStart(r, i - 1) + RecordLines(r[i - 1])

\* the ways the first line of a record is damaged: a character that is no
\* digit before the ':', no ':', a number that is no tag and below
\* BACKED_UP_FILE_NUM
Damaged(line, how) ==
    LET colon == SkipUntilColon(line, 1)
    IN  IF how = "nondigit" THEN <<"x">> \o line
        ELSE IF how = "sign" THEN <<"-">> \o line
        ELSE IF how = "nocolon" THEN SubSeq(line, 1, colon - 1)
        ELSE IF how = "tag3" THEN <<"3">> \o SubSeq(line, colon, Len(line))
        ELSE <<"9", "9">> \o SubSeq(line, colon, Len(line))

DamageKinds == {"nondigit", "sign", "nocolon", "tag3", "tag99"}

\* the first line of the record of entry i, still as it was written, is
\* damaged
damage_log(i, how) ==
    /\ pc = "Idle"
    /\ tampers < MaxTamper
    /\ store.log
    /\ i \in 1..Len(rec)
    /\ how \in DamageKinds
    /\ RecordStart(rec, i) <= Len(store.lines)
    /\ store.lines[RecordStart(rec, i)] = FirstLine(rec[i].num, rec[i].filename)
    /\ store' = [store EXCEPT !.lines[RecordStart(rec, i)] =
                                 Damaged(store.lines[RecordStart(rec, i)], how)]
    /\ call' = [op |-> "damage_log", filename |-> rec[i].filename, kind |-> how]
    /\ UNCHANGED processVars
    /\ tampers' = tampers + 1
    /\ UNCHANGED <<fs, backup_file_number, pc, pending, ret, orig, rec, tree>>
    /\ UNCHANGED uninstallVars

\* the log, which has the whole record of entry i, ends after the first k
\* lines of that record
cut_log(i, k) ==
    /\ pc = "Idle"
    /\ tampers < MaxTamper
    /\ store.log
    /\ i \in 1..Len(rec)
    /\ k \in 1..(RecordLines(rec[i]) - 1)
    /\ RecordStart(rec, i) + RecordLines(rec[i]) - 1 <= Len(store.lines)
    /\ store' = [store EXCEPT !.lines = SubSeq(store.lines, 1, RecordStart(rec, i) + k - 1)]
    /\ call' = [op |-> "cut_log", filename |-> rec[i].filename, kind |-> "short"]
    /\ UNCHANGED processVars
    /\ tampers' = tampers + 1
    /\ UNCHANGED <<fs, backup_file_number, pc, pending, ret, orig, rec, tree>>
    /\ UNCHANGED uninstallVars

\* the line of the log that holds the numbers of the record of entry i
NumberLine(r, i) == RecordStart(r, i) + RecordLines(r[i]) - 1

\* the ways the numbers of a record are damaged: a character that is no
\* digit at the head of the first number, the first number taken out, and
\* the first number alone left on the line
DamagedNumbers(line, how) ==
    LET e == DigitRunEnd(line, 1)
    IN  IF how = "nondigit" THEN <<"x">> \o line
        ELSE IF how = "empty" THEN SubSeq(line, e, Len(line))
        ELSE SubSeq(line, 1, e - 1)

NumberDamageKinds == {"nondigit", "empty", "one"}

\* the line with the numbers of the record of entry i is damaged
damage_numbers(i, how) ==
    /\ pc = "Idle"
    /\ tampers < MaxTamper
    /\ store.log
    /\ i \in 1..Len(rec)
    /\ how \in NumberDamageKinds
    /\ rec[i].num # INSTALLED_SYMLINK
    /\ NumberLine(rec, i) <= Len(store.lines)
    /\ store.lines[NumberLine(rec, i)] # <<>>
    /\ isdigit(store.lines[NumberLine(rec, i)][1])
    /\ store' = [store EXCEPT !.lines[NumberLine(rec, i)] =
                                 DamagedNumbers(store.lines[NumberLine(rec, i)], how)]
    /\ store' # store
    /\ call' = [op |-> "damage_numbers", filename |-> rec[i].filename, kind |-> how]
    /\ UNCHANGED processVars
    /\ tampers' = tampers + 1
    /\ UNCHANGED <<fs, backup_file_number, pc, pending, ret, orig, rec, tree>>
    /\ UNCHANGED uninstallVars

\* the log ends after the first k of its two header lines
cut_header(k) ==
    /\ pc = "Idle"
    /\ tampers < MaxTamper
    /\ store.log
    /\ k \in 0..1
    /\ Len(store.lines) >= 2
    /\ store' = [store EXCEPT !.lines = SubSeq(store.lines, 1, k)]
    /\ call' = [op |-> "cut_header", filename |-> <<>>, kind |-> "short"]
    /\ UNCHANGED processVars
    /\ tampers' = tampers + 1
    /\ UNCHANGED <<fs, backup_file_number, pc, pending, ret, orig, rec, tree>>
    /\ UNCHANGED uninstallVars

\* the modes something other than the installer gives the Backup Store
\* directory or the log
OtherModes == {448, 384, 493, 420, 256}

\* chmod of the Backup Store directory or of the log
chmod_store(which, mode) ==
    /\ pc = "Idle"
    /\ tampers < MaxTamper
    /\ store.exists /\ store.log
    /\ which \in {"dir", "log"}
    /\ mode \in OtherModes
    /\ store' = IF which = "dir" THEN [store EXCEPT !.mode = mode]
                ELSE [store EXCEPT !.logMode = mode]
    /\ store' # store
    /\ call' = [op |-> "chmod_store", filename |-> <<>>, kind |-> which]
    /\ UNCHANGED processVars
    /\ tampers' = tampers + 1
    /\ UNCHANGED <<fs, backup_file_number, pc, pending, ret, orig, rec, tree>>
    /\ UNCHANGED uninstallVars

\* ------------------------------------------------------ the reader

LoadFailed(line_num) ==
    [ok |-> FALSE, version |-> NoLine, description |-> NoLine, e |-> <<>>,
     line_num |-> line_num]

\* a comparison of the owner's bits alone
same_owner_perms(mode, perms) == (mode % (PERM_MASK + 1)) \div 64 = perms \div 64

\* (stat_buf.st_mode & PERM_MASK) == perms
same_perms(mode, perms) == mode % (PERM_MASK + 1) = perms

read_backup_log_file(st) ==
    IF ~st.exists THEN LoadFailed(0)
    ELSE IF ~same_perms(st.mode, BACKUP_DIRECTORY_PERMS) THEN LoadFailed(0)
    ELSE IF ~st.log THEN LoadFailed(0)
    ELSE IF ~same_perms(st.logMode, BACKUP_LOG_PERMS) THEN LoadFailed(0)
    ELSE IF get_next_line(st.lines, 1) = NoLine THEN LoadFailed(0)
    ELSE IF get_next_line(st.lines, 2) = NoLine THEN LoadFailed(0)
    ELSE LET r == ReadEntries(st.lines, 3, <<>>, 3)
         IN  IF ~r.ok THEN LoadFailed(r.line_num)
             ELSE [ok |-> TRUE, version |-> st.lines[1], description |-> st.lines[2],
                   e |-> r.e, line_num |-> r.line_num]

\* check_installed_file(): the file is there, is a regular file, has the
\* permission bits of mode when a mode was recorded, and has the checksum
check_installed_file(filename, mode, crc) ==
    /\ fs[filename].kind = "reg"
    /\ mode # 0 => fs[filename].mode % (PERM_MASK + 1) = mode % (PERM_MASK + 1)
    /\ Crc(fs[filename].data) = crc

\* get_symlink_target(): NULL when the path is no symlink
get_symlink_target(filename) ==
    IF fs[filename].kind = "lnk" THEN fs[filename].data ELSE NoLine

\* an inner loop that also takes the recorded target from the entries it marks
CrossInvalidateRetargeting(e, filename) ==
    [j \in 1..Len(e) |->
        IF e[j].num = BACKED_UP_SYMLINK /\ e[j].filename = filename
        THEN [e[j] EXCEPT !.ok = FALSE, !.target = NoLine] ELSE e[j]]

\* the inner loop of check_backup_log_entries(): every BACKED_UP_SYMLINK
\* entry of the name loses its ok flag
CrossInvalidate(e, filename) ==
    [j \in 1..Len(e) |->
        IF e[j].num = BACKED_UP_SYMLINK /\ e[j].filename = filename
        THEN [e[j] EXCEPT !.ok = FALSE] ELSE e[j]]

\* a check that only looks for the numbered file
backed_up_file_exists(ent) == SlotExists(ent.num)

\* the default case of check_backup_log_entries(): the numbered file is
\* there and has the checksum of the entry
check_backed_up_file(ent) ==
    /\ SlotExists(ent.num)
    /\ Crc(store.slots[ent.num].data) = ent.crc

\* ret is left as it was
KeepRet(r, good) == r

\* ret = ret && e->ok
AndOk(r, good) == r /\ good

\* a marking that takes the backed-up symlinks of the name along
MarkEntryAndBackups(e, i) == CrossInvalidate([e EXCEPT ![i].ok = FALSE], e[i].filename)

\* ret = e->ok = FALSE: the entry at hand alone loses its flag
MarkEntry(e, i) == [e EXCEPT ![i].ok = FALSE]

\* the switch of check_backup_log_entries() for entry i: the entries and
\* ret after it
CheckSwitch(e, i, r) ==
    LET ent == e[i]
    IN  IF ent.num = INSTALLED_FILE THEN
            LET good == check_installed_file(ent.filename, ent.mode, ent.crc)
            IN  [e |-> [e EXCEPT ![i].ok = good], ret |-> AndOk(r, good)]
        ELSE IF ent.num = INSTALLED_SYMLINK THEN
            IF ~access(ent.filename) THEN
                [e |-> MarkEntry(e, i), ret |-> FALSE]
            ELSE IF get_symlink_target(ent.filename) = NoLine THEN
                [e |-> MarkEntry(e, i), ret |-> FALSE]
            ELSE IF get_symlink_target(ent.filename) # ent.target THEN
                [e |-> CrossInvalidate([e EXCEPT ![i].ok = FALSE], ent.filename),
                 ret |-> FALSE]
            ELSE [e |-> e, ret |-> r]
        ELSE IF ent.num = BACKED_UP_SYMLINK THEN [e |-> e, ret |-> r]
        ELSE IF ~check_backed_up_file(ent) THEN
            [e |-> [e EXCEPT ![i].ok = FALSE], ret |-> FALSE]
        ELSE [e |-> e, ret |-> r]

\* a loop that passes over the entries already marked
CheckEntrySkipping(e, i, r) ==
    IF ~e[i].ok THEN [e |-> e, ret |-> r] ELSE CheckSwitch(e, i, r)

\* the body of the loop of check_backup_log_entries() for entry i
CheckEntry(e, i, r) == CheckSwitch(e, i, r)

RECURSIVE CheckFrom(_, _, _)
CheckFrom(e, i, r) ==
    IF i > Len(e) THEN [e |-> e, ret |-> r]
    ELSE LET s == CheckEntry(e, i, r) IN CheckFrom(s.e, i + 1, s.ret)

\* check_backup_log_entries(op, b): the entries with their ok flags, and
\* the value returned
check_backup_log_entries(e) == CheckFrom(e, 1, TRUE)

\* ------------------------------------------------------ the uninstall

\* unlink(2) on a path of the model; injected says that the environment
\* makes it fail
UnlinkOk(f, filename, injected) == ~injected /\ f[filename].kind \in {"reg", "lnk"}

Call(op, filename, i, good) == [op |-> op, path |-> filename, i |-> i, ok |-> good]

RECURSIVE RemoveUntilFailure(_, _, _, _)
\* a first loop that gives up at the first unlink() that fails
RemoveUntilFailure(e, s, i, F) ==
    IF i > Len(e) THEN s
    ELSE IF e[i].ok /\ e[i].num \in {INSTALLED_FILE, INSTALLED_SYMLINK} THEN
        LET good == UnlinkOk(s.fs, e[i].filename, i \in F)
            t == [fs |-> IF good THEN [s.fs EXCEPT ![e[i].filename] = NoObj] ELSE s.fs,
                  failed |-> s.failed \/ ~good,
                  trace |-> Append(s.trace, Call("unlink", e[i].filename, i, good))]
        IN  IF good THEN RemoveUntilFailure(e, t, i + 1, F) ELSE t
    ELSE RemoveUntilFailure(e, s, i + 1, F)

RECURSIVE RemoveFrom(_, _, _, _)
\* the first loop of do_uninstall() from entry i on; s holds fs, the
\* removal_failed flag and the calls made, F the entries whose unlink() the
\* environment makes fail
RemoveFrom(e, s, i, F) ==
    IF i > Len(e) THEN s
    ELSE IF e[i].ok /\ e[i].num \in {INSTALLED_FILE, INSTALLED_SYMLINK} THEN
        LET good == UnlinkOk(s.fs, e[i].filename, i \in F)
        IN  RemoveFrom(e,
                       [fs |-> IF good THEN [s.fs EXCEPT ![e[i].filename] = NoObj] ELSE s.fs,
                        failed |-> s.failed \/ ~good,
                        trace |-> Append(s.trace, Call("unlink", e[i].filename, i, good))],
                       i + 1, F)
    ELSE RemoveFrom(e, s, i + 1, F)

\* case BACKED_UP_SYMLINK of the second loop; inject is "op", "own" or "none"
RestoreSymlink(ent, s, i, inject, checked) ==
    LET linked == inject # "op" /\ s.fs[ent.filename].kind = "none"
        owned == inject # "own"
        made == Obj("lnk", ent.target, S_IFLNK + PERM_MASK, Zero32, Zero32)
    IN  IF ~linked THEN
            [s EXCEPT !.failed = IF checked THEN TRUE ELSE s.failed,
                      !.trace = Append(s.trace, Call("symlink", ent.filename, i, FALSE))]
        ELSE
            [s EXCEPT !.fs = [s.fs EXCEPT ![ent.filename] =
                                IF owned THEN [made EXCEPT !.uid = ent.uid, !.gid = ent.gid]
                                ELSE made],
                      !.failed = s.failed \/ ~owned,
                      !.trace = s.trace \o <<Call("symlink", ent.filename, i, TRUE),
                                              Call("lchown", ent.filename, i, owned)>>]

\* the default case of the second loop: the numbered file is renamed back
RestoreFile(ent, s, i, inject) ==
    LET renamed == /\ inject # "op"
                   /\ ent.num \in DOMAIN s.slots
                   /\ s.fs[ent.filename].kind # "dir"
        owned == inject # "own"
        moded == inject # "mod"
        f0 == s.slots[ent.num]
        f1 == [f0 EXCEPT !.uid = ent.uid, !.gid = ent.gid]
        f2 == [f1 EXCEPT !.mode = (f1.mode - (f1.mode % 4096)) + (ent.mode % 4096)]
    IN  IF ~renamed THEN
            [s EXCEPT !.failed = TRUE,
                      !.trace = Append(s.trace, Call("rename", ent.filename, i, FALSE))]
        ELSE IF ~owned THEN
            [s EXCEPT !.fs = [s.fs EXCEPT ![ent.filename] = f0],
                      !.slots = DropSlot(s.slots, ent.num),
                      !.failed = TRUE,
                      !.trace = s.trace \o <<Call("rename", ent.filename, i, TRUE),
                                              Call("chown", ent.filename, i, FALSE)>>]
        ELSE
            [s EXCEPT !.fs = [s.fs EXCEPT ![ent.filename] = IF moded THEN f2 ELSE f1],
                      !.slots = DropSlot(s.slots, ent.num),
                      !.failed = s.failed \/ ~moded,
                      !.trace = s.trace \o <<Call("rename", ent.filename, i, TRUE),
                                              Call("chown", ent.filename, i, TRUE),
                                              Call("chmod", ent.filename, i, moded)>>]

RECURSIVE RestoreFromRemoving(_, _, _, _, _, _)
\* a second loop that also unlinks what the entries of installed files and
\* symlinks name
RestoreFromRemoving(e, s, i, F, stage, checked) ==
    IF i > Len(e) THEN s
    ELSE IF ~e[i].ok THEN RestoreFromRemoving(e, s, i + 1, F, stage, checked)
    ELSE IF e[i].num \in {INSTALLED_FILE, INSTALLED_SYMLINK} THEN
        LET good == UnlinkOk(s.fs, e[i].filename, FALSE)
        IN  RestoreFromRemoving(e,
                [s EXCEPT !.fs = IF good THEN [s.fs EXCEPT ![e[i].filename] = NoObj] ELSE s.fs,
                          !.trace = Append(s.trace, Call("unlink", e[i].filename, i, good))],
                i + 1, F, stage, checked)
    ELSE IF e[i].num = BACKED_UP_SYMLINK THEN
        RestoreFromRemoving(e, RestoreSymlink(e[i], s, i, IF i \in F THEN stage ELSE "none", checked),
                            i + 1, F, stage, checked)
    ELSE
        RestoreFromRemoving(e, RestoreFile(e[i], s, i, IF i \in F THEN stage ELSE "none"),
                            i + 1, F, stage, checked)

RECURSIVE RestoreFrom(_, _, _, _, _, _)
\* the second loop of do_uninstall() from entry i on; s holds fs, the
\* numbered files, the restore_failed flag and the calls made; the
\* environment makes the call named by stage fail for the entries in F
RestoreFrom(e, s, i, F, stage, checked) ==
    IF i > Len(e) THEN s
    ELSE IF ~e[i].ok \/ e[i].num \in {INSTALLED_FILE, INSTALLED_SYMLINK} THEN
        RestoreFrom(e, s, i + 1, F, stage, checked)
    ELSE IF e[i].num = BACKED_UP_SYMLINK THEN
        RestoreFrom(e, RestoreSymlink(e[i], s, i, IF i \in F THEN stage ELSE "none", checked),
                    i + 1, F, stage, checked)
    ELSE
        RestoreFrom(e, RestoreFile(e[i], s, i, IF i \in F THEN stage ELSE "none"),
                    i + 1, F, stage, checked)

\* the entries a loop of do_uninstall() acts on
Installed(e) == {i \in 1..Len(e) : e[i].ok /\ e[i].num \in {INSTALLED_FILE, INSTALLED_SYMLINK}}
BackedUp(e) == {i \in 1..Len(e) : e[i].ok /\ e[i].num \notin {INSTALLED_FILE, INSTALLED_SYMLINK}}

\* extract_version_string(): the text between the parentheses, NULL without
RECURSIVE IndexOf(_, _, _)
IndexOf(str, c, i) ==
    IF i > Len(str) THEN 0 ELSE IF str[i] = c THEN i ELSE IndexOf(str, c, i + 1)

extract_version_string(str) ==
    LET l == IndexOf(str, "(", 1)
        r == IndexOf(str, ")", 1)
    IN  IF l = 0 \/ r <= l THEN NoLine ELSE SubSeq(str, l + 1, r - 1)

\* get_installed_driver_version_and_descr(): whether a previous
\* installation is reported, and its version
get_installed_driver_version_and_descr(st) ==
    LET version_line == get_next_line(st.lines, 1)
        version == extract_version_string(version_line)
        descr == get_next_line(st.lines, 2)
    IN  IF ~st.exists \/ ~st.log THEN NoReport
        ELSE IF version_line = NoLine \/ version = NoLine \/ descr = NoLine
            THEN NoReport
        ELSE [ret |-> TRUE, version |-> version, descr |-> descr]

\* report_driver_information(), in a run of the installer of its own
report_driver_information ==
    LET found == get_installed_driver_version_and_descr(store)
    IN
    /\ pc = "Idle"
    /\ reported' = found
    /\ ret' = found.ret
    /\ ui' = ui \cup {IF found.ret THEN "The currently installed driver is"
                                   ELSE "There is no NVIDIA driver currently installed."}
    /\ call' = [op |-> "report_driver_information", filename |-> <<>>, kind |-> "none"]
    /\ UNCHANGED <<fs, store, backup_file_number, pc, pending, b, ok, removal_failed,
                   restore_failed, trace, orig, rec, tampers, tree, result, before,
                   package, other>>

\* uninstall_existing_driver() up to and with read_backup_log_file() in
\* do_uninstall()
uninstall_begin ==
    LET found == get_installed_driver_version_and_descr(store)
        info == read_backup_log_file(store)
    IN
    /\ pc = "Idle"
    /\ IF ~found.ret THEN
            /\ pc' = "NoDriver"
            /\ result' = TRUE
            /\ ui' = ui \cup {"There is no NVIDIA driver currently installed."}
            /\ UNCHANGED <<ret, b>>
       ELSE IF ~info.ok THEN
            /\ pc' = "Failed"
            /\ ret' = FALSE
            /\ result' = TRUE
            /\ ui' = ui \cup {"Uninstallation failed."}
            /\ UNCHANGED b
       ELSE
            /\ pc' = "Validate"
            /\ b' = info.e
            /\ UNCHANGED <<ret, result, ui>>
    /\ before' = fs
    /\ UNCHANGED <<fs, store, tree, backup_file_number, pending, ok, removal_failed,
                   restore_failed, trace, orig, rec, tampers>>
    /\ UNCHANGED call
    /\ UNCHANGED processVars

\* what do_uninstall() returns when there is no backup directory or the log
\* cannot be loaded, and a do_uninstall() that goes on as if nothing happened
load_failure_ignored == TRUE

load_failure_return == FALSE

\* uninstall_existing_driver() up to its call of do_uninstall()
uninstall_existing_driver ==
    LET found == get_installed_driver_version_and_descr(store)
    IN
    /\ pc = "Idle"
    /\ IF ~found.ret THEN
            /\ pc' = "NoDriver"
            /\ result' = TRUE
            /\ ui' = ui \cup {"There is no NVIDIA driver currently installed."}
       ELSE
            /\ pc' = "DoUninstall"
            /\ UNCHANGED <<result, ui>>
    /\ before' = fs
    /\ UNCHANGED <<fs, store, tree, backup_file_number, pending, ret, b, ok, removal_failed,
                   restore_failed, trace, orig, rec, tampers>>
    /\ call' = [op |-> "uninstall_existing_driver", filename |-> <<>>, kind |-> "none"]
    /\ UNCHANGED processVars

\* something else removes the backup directory, or the log in it, after
\* uninstall_existing_driver() has read the version and before do_uninstall()
\* looks at the directory
outside_removal(what) ==
    /\ pc = "DoUninstall"
    /\ tampers < MaxTamper
    /\ store.exists /\ store.log
    /\ what \in {"dir", "log"}
    /\ store' = IF what = "dir" THEN NoStore
                ELSE [store EXCEPT !.log = FALSE, !.lines = <<>>]
    /\ tampers' = tampers + 1
    /\ call' = [op |-> "outside_removal", filename |-> <<>>, kind |-> what]
    /\ UNCHANGED <<fs, backup_file_number, pc, pending, ret, orig, rec, tree>>
    /\ UNCHANGED uninstallVars
    /\ UNCHANGED processVars

\* do_uninstall() up to check_backup_log_entries(), and what
\* uninstall_existing_driver() does with FALSE
do_uninstall_begin ==
    LET info == read_backup_log_file(store)
    IN
    /\ pc = "DoUninstall"
    /\ IF ~store.exists \/ ~info.ok THEN
            /\ ret' = load_failure_return
            /\ pc' = IF ret' THEN "Validate" ELSE "Failed"
            /\ result' = TRUE
            /\ ui' = ui \cup (IF store.exists THEN {} ELSE {"No driver backed up."})
                        \cup (IF ret' THEN {} ELSE {"Uninstallation failed."})
            /\ UNCHANGED b
       ELSE
            /\ pc' = "Validate"
            /\ b' = info.e
            /\ UNCHANGED <<ret, result, ui>>
    /\ UNCHANGED <<fs, store, tree, backup_file_number, pending, ok, removal_failed,
                   restore_failed, trace, orig, rec, tampers, before>>
    /\ call' = [op |-> "do_uninstall", filename |-> <<>>, kind |-> "none"]
    /\ UNCHANGED processVars

\* check_backup_log_entries() and the warning that follows it
validate ==
    LET c == check_backup_log_entries(b)
    IN
    /\ pc = "Validate"
    /\ b' = c.e
    /\ ok' = c.ret
    /\ ui' = IF c.ret THEN ui ELSE ui \cup {"Your driver installation has been altered"}
    /\ pc' = "RemovePhase"
    /\ UNCHANGED <<fs, store, tree, backup_file_number, pending, ret, result, removal_failed,
                   restore_failed, trace, orig, rec, tampers, before>>
    /\ UNCHANGED call
    /\ UNCHANGED processVars

\* step 1 of do_uninstall(): remove everything that was installed
remove_phase(F) ==
    LET s == RemoveFrom(b, [fs |-> fs, failed |-> FALSE, trace |-> trace], 1, F)
    IN
    /\ pc = "RemovePhase"
    /\ F \subseteq Installed(b)
    /\ fs' = s.fs
    /\ removal_failed' = s.failed
    /\ trace' = s.trace
    /\ pc' = "RestorePhase"
    /\ UNCHANGED <<store, tree, backup_file_number, pending, ret, result, b, ok,
                   restore_failed, ui, orig, rec, tampers, before>>
    /\ UNCHANGED call
    /\ UNCHANGED processVars

\* step 2 of do_uninstall(): restore everything that was backed up, then
\* the two warnings
restore_phase(F, stage) ==
    LET s == RestoreFrom(b, [fs |-> fs, slots |-> store.slots, failed |-> FALSE,
                             trace |-> trace], 1, F, stage, ok)
    IN
    /\ pc = "RestorePhase"
    /\ F \subseteq BackedUp(b)
    /\ F = {} => stage = "op"
    /\ fs' = s.fs
    /\ store' = [store EXCEPT !.slots = s.slots]
    /\ restore_failed' = s.failed
    /\ trace' = s.trace
    /\ ui' = ui \cup (IF removal_failed
                      THEN {"Failed to remove some installed files/symlinks"} ELSE {})
                \cup (IF s.failed
                      THEN {"Failed to restore some backed up files/symlinks"} ELSE {})
    /\ pc' = "DirectoryCleanup"
    /\ UNCHANGED <<tree, backup_file_number, pending, ret, result, b, ok, removal_failed,
                   orig, rec, tampers, before>>
    /\ UNCHANGED call
    /\ UNCHANGED processVars

\* ------------------------------------------------ created directories

\* the installer creates the directories of a list
install_dirs(list) ==
    /\ Recording
    /\ pending = <<>>
    /\ ~store.dirs
    /\ tree' = [d \in DirPaths |-> IF \E k \in 1..Len(list) : list[k] = d
                                   THEN "dir" ELSE tree[d]]
    /\ pending' = <<"dirs", list>>
    /\ UNCHANGED <<fs, store, backup_file_number, pc, ret, orig, rec, tampers>>
    /\ UNCHANGED uninstallVars
    /\ call' = NoCall
    /\ UNCHANGED processVars

\* log_mkdir(op, dirs); dirs is given as the list of its lines
log_mkdir(list) ==
    /\ Recording
    /\ pending = <<"dirs", list>>
    /\ store' = [store EXCEPT
                    !.exists = TRUE,
                    !.mode = IF store.exists THEN store.mode ELSE BACKUP_DIRECTORY_PERMS,
                    !.dirs = TRUE,
                    !.dirsLines = store.dirsLines \o list]
    /\ pending' = <<>>
    /\ ret' = TRUE
    /\ UNCHANGED <<fs, backup_file_number, pc, orig, rec, tampers, tree>>
    /\ UNCHANGED uninstallVars
    /\ call' = [op |-> "log_mkdir", filename |-> <<>>, kind |-> "none"]
    /\ UNCHANGED processVars

\* a file the installer knows nothing of appears in a created directory
tamper_dir(d) ==
    /\ pc = "Idle"
    /\ tampers < MaxTamper
    /\ tree[d] = "dir"
    /\ tree' = [tree EXCEPT ![d] = "full"]
    /\ tampers' = tampers + 1
    /\ UNCHANGED <<fs, store, backup_file_number, pc, pending, ret, orig, rec>>
    /\ UNCHANGED uninstallVars
    /\ UNCHANGED call
    /\ UNCHANGED processVars

IsBelow(c, d) ==
    /\ Len(c) > Len(d) + 1
    /\ SubSeq(c, 1, Len(d)) = d
    /\ c[Len(d) + 1] = "/"

\* rmdir(2); injected says that the environment makes it fail
RmdirOk(tr, d, injected) ==
    /\ ~injected
    /\ d \in DirPaths
    /\ tr[d] = "dir"
    /\ \A c \in DirPaths : IsBelow(c, d) => tr[c] = "none"

\* a comparison that sorts the short strings first
strlen_compare(s1, s2) == Len(s1) - Len(s2)

\* reverse_strlen_compare(): negative when s1 sorts before s2
reverse_strlen_compare(s1, s2) == Len(s2) - Len(s1)

\* the orders qsort() may leave n lines in: any permutation that
\* reverse_strlen_compare() calls sorted
SortedOrders(lines) ==
    {f \in [1..Len(lines) -> 1..Len(lines)] :
        /\ \A i, j \in 1..Len(lines) : i # j => f[i] # f[j]
        /\ \A i, j \in 1..Len(lines) :
              i < j => reverse_strlen_compare(lines[f[i]], lines[f[j]]) <= 0}

\* the lines of the journal rmdir() is called for
Attempted(lines) == {k \in 1..Len(lines) : Len(lines[k]) # 0 /\ lines[k] # BACKUP_DIRECTORY}

RECURSIVE RmdirFrom(_, _, _, _, _)
\* the last loop of rmdir_recursive() from position i of the sorted lines;
\* s holds the directories, ret and the calls made, F the lines whose
\* rmdir() the environment makes fail
RmdirFrom(lines, order, s, i, F) ==
    IF i > Len(lines) THEN s
    ELSE IF order[i] \in Attempted(lines) THEN
        LET d == lines[order[i]]
            good == RmdirOk(s.tree, d, order[i] \in F)
        IN  RmdirFrom(lines, order,
                      [tree |-> IF good THEN [s.tree EXCEPT ![d] = "none"] ELSE s.tree,
                       ret |-> s.ret /\ good,
                       trace |-> Append(s.trace, Call("rmdir", d, order[i], good))],
                      i + 1, F)
    ELSE RmdirFrom(lines, order, s, i + 1, F)

\* rmdir_recursive(op), given the order qsort() leaves
rmdir_recursive(st, tr, calls, order, F) ==
    IF ~st.dirs THEN [tree |-> tr, ret |-> FALSE, trace |-> calls, opened |-> FALSE]
    ELSE [opened |-> TRUE] @@
         RmdirFrom(st.dirsLines, order, [tree |-> tr, ret |-> TRUE, trace |-> calls], 1, F)

\* a do_uninstall() that returns when rmdir_recursive() fails
directory_cleanup_returning(order, F) ==
    LET s == rmdir_recursive(store, tree, trace, order, F)
    IN
    /\ pc = "DirectoryCleanup"
    /\ order \in SortedOrders(store.dirsLines)
    /\ F \subseteq (IF store.dirs THEN Attempted(store.dirsLines) ELSE {})
    /\ tree' = s.tree
    /\ trace' = s.trace
    /\ pc' = IF s.ret THEN "StoreTeardown" ELSE "Done"
    /\ UNCHANGED <<fs, store, backup_file_number, pending, ret, result, b, ok, ui,
                   removal_failed, restore_failed, orig, rec, tampers, before>>
    /\ UNCHANGED call
    /\ UNCHANGED processVars

\* rmdir_recursive() as do_uninstall() calls it
directory_cleanup(order, F) ==
    LET s == rmdir_recursive(store, tree, trace, order, F)
    IN
    /\ pc = "DirectoryCleanup"
    /\ order \in SortedOrders(store.dirsLines)
    /\ F \subseteq (IF store.dirs THEN Attempted(store.dirsLines) ELSE {})
    /\ tree' = s.tree
    /\ trace' = s.trace
    /\ ui' = ui \cup (IF s.opened /\ ~s.ret
                      THEN {"Failed to delete the directory", "Failed to delete some directories"}
                      ELSE {})
                \cup (IF ~s.ret
                      THEN {"Unable to delete directories created by previous installation."}
                      ELSE {})
    /\ pc' = "StoreTeardown"
    /\ UNCHANGED <<fs, store, backup_file_number, pending, ret, result, b, ok,
                   removal_failed, restore_failed, orig, rec, tampers, before>>
    /\ UNCHANGED call
    /\ UNCHANGED processVars

\* a do_uninstall() that reports the failures of its two loops
return_no_failure(removal, restore) == ~removal /\ ~restore

\* what do_uninstall() returns once the log was loaded: TRUE, whatever the
\* two loops met
do_uninstall_return(removal, restore) == TRUE

\* a do_uninstall() that keeps the store when a restoration failed
store_teardown_unless_failed(fail) ==
    /\ pc = "StoreTeardown"
    /\ store' = IF fail \/ restore_failed THEN store ELSE NoStore
    /\ trace' = IF restore_failed THEN trace
                ELSE Append(trace, Call("remove_directory", BACKUP_DIRECTORY, 0, ~fail))
    /\ ret' = TRUE
    /\ result' = TRUE
    /\ pc' = "Done"
    /\ UNCHANGED <<fs, tree, backup_file_number, pending, b, ok, removal_failed, ui,
                   restore_failed, orig, rec, tampers, before>>
    /\ UNCHANGED call
    /\ UNCHANGED processVars

\* remove_directory(BACKUP_DIRECTORY), the return of do_uninstall() and the
\* end of uninstall_existing_driver(); fail says that the environment makes
\* the removal fail
store_teardown(fail) ==
    /\ pc = "StoreTeardown"
    /\ store' = IF fail THEN store ELSE NoStore
    /\ trace' = Append(trace, Call("remove_directory", BACKUP_DIRECTORY, 0, ~fail))
    /\ ret' = do_uninstall_return(removal_failed, restore_failed)
    /\ result' = TRUE
    /\ ui' = ui \cup {IF ret' THEN "Uninstallation of existing driver is complete."
                                ELSE "Uninstallation failed."}
    /\ pc' = "Done"
    /\ UNCHANGED <<fs, tree, backup_file_number, pending, b, ok, removal_failed,
                   restore_failed, orig, rec, tampers, before>>
    /\ UNCHANGED call
    /\ UNCHANGED processVars

\* what an outside change leaves at a path
TamperObjs == {NoObj, Obj("reg", CX, S_IFREG + 420, Zero32, Zero32), PkgLink(TB), PkgLink(TD)}

\* installation, outside changes and uninstall, in an environment whose
\* filesystem calls fail only for what is at the paths they are given
Next ==
    \/ init_backup
    \/ \E p \in Paths, fail \in BOOLEAN : do_backup(p, fail)
    \/ \E p \in Paths : install_file(p)
    \/ \E p \in Paths, t \in {TA, TD} : install_symlink(p, t)
    \/ \E p \in Paths : log_install_file(p)
    \/ \E p \in Paths, t \in {TA, TD} : log_create_symlink(p, t)
    \/ finish_install
    \/ \E p \in Paths, o \in TamperObjs : tamper_path(p, o)
    \/ \E n \in DOMAIN store.slots, remove \in BOOLEAN : tamper_slot(n, remove)
    \/ uninstall_begin
    \/ validate
    \/ remove_phase({})
    \/ restore_phase({}, "op")
    \/ \E order \in SortedOrders(store.dirsLines) : directory_cleanup(order, {})
    \/ store_teardown(FALSE)

Spec == Init /\ [][Next]_vars

\* an installation over one file or symlink that creates directories, and an
\* uninstall in which the environment makes any of the calls fail
InitF ==
    /\ Init
    /\ fs[P1] \in {OrigFile, OrigLink}
    /\ fs[P2] = NoObj

NextF ==
    \/ init_backup
    \/ \E p \in Paths, fail \in BOOLEAN : do_backup(p, fail)
    \/ \E p \in Paths : install_file(p)
    \/ \E p \in Paths : install_symlink(p, TA)
    \/ \E p \in Paths : log_install_file(p)
    \/ \E p \in Paths : log_create_symlink(p, TA)
    \/ \E list \in MkdirLists : install_dirs(list)
    \/ \E list \in MkdirLists : log_mkdir(list)
    \/ finish_install
    \/ \E n \in DOMAIN store.slots : tamper_slot(n, FALSE)
    \/ \E d \in DirPaths : tamper_dir(d)
    \/ uninstall_begin
    \/ validate
    \/ \E F \in SUBSET (1..Len(b)) : remove_phase(F)
    \/ \E F \in SUBSET (1..Len(b)), stage \in {"op", "own", "mod"} : restore_phase(F, stage)
    \/ \E order \in SortedOrders(store.dirsLines), F \in SUBSET (1..Len(store.dirsLines)) :
          directory_cleanup(order, F)
    \/ \E fail \in BOOLEAN : store_teardown(fail)

SpecF == InitF /\ [][NextF]_vars

\* the operations that write the Backup Store, called in whatever order
\* by one process, init_backup() any number of times
InitR == InitState("Recorder")

NextR ==
    \/ init_backup
    \/ \E p \in Paths, fail \in BOOLEAN : do_backup(p, fail)
    \/ \E p \in Paths : install_file(p)
    \/ \E p \in Paths : install_symlink(p, TA)
    \/ \E p \in Paths : log_install_file(p)
    \/ \E p \in Paths : log_create_symlink(p, TA)
    \/ \E list \in MkdirLists : install_dirs(list)
    \/ \E list \in MkdirLists : log_mkdir(list)

SpecR == InitR /\ [][NextR]_vars

\* an installation, a change of the log or of the modes of the store by
\* something else, and the load of the log by the uninstall
NextT ==
    \/ init_backup
    \/ \E p \in Paths : do_backup(p, FALSE)
    \/ \E p \in Paths : install_file(p)
    \/ \E p \in Paths : install_symlink(p, TA)
    \/ \E p \in Paths : log_install_file(p)
    \/ \E p \in Paths : log_create_symlink(p, TA)
    \/ finish_install
    \/ \E i \in 1..Len(rec), how \in DamageKinds : damage_log(i, how)
    \/ \E i \in 1..Len(rec), k \in 1..2 : cut_log(i, k)
    \/ \E which \in {"dir", "log"}, mode \in OtherModes : chmod_store(which, mode)
    \/ uninstall_begin

SpecT == Init /\ [][NextT]_vars

\* the characters of the version strings tried
VersionChars == {"1", "7", "0", ".", "-", "b", "("}

RECURSIVE StringsUpTo(_)
\* the strings of at most n of these characters
StringsUpTo(n) ==
    IF n = 0 THEN {<<>>}
    ELSE LET shorter == StringsUpTo(n - 1)
         IN  shorter \cup {Append(str, c) : str \in shorter, c \in VersionChars}

\* the version strings tried: not empty
Versions == StringsUpTo(MaxVersionLen) \ {<<>>}

\* a package of any of these versions is installed, and a later run of the
\* installer reports the installed driver
InitV == InitOf("Start", Versions)

NextV ==
    \/ init_backup
    \/ \E p \in Paths : do_backup(p, FALSE)
    \/ finish_install
    \/ report_driver_information

SpecV == InitV /\ [][NextV]_vars

\* an installation that records the directories it created, in a journal that
\* may name a directory twice, hold an empty line or name the directory of
\* the backups, or be empty; then the uninstall
JournalLists ==
    MkdirLists \cup {<<>>, <<DX, DX>>, <<DXY, <<>>, DX>>, <<BACKUP_DIRECTORY, DX>>}

NextD ==
    \/ init_backup
    \/ \E p \in Paths, fail \in BOOLEAN : do_backup(p, fail)
    \/ \E p \in Paths : install_file(p)
    \/ \E p \in Paths : log_install_file(p)
    \/ \E list \in JournalLists : install_dirs(list)
    \/ \E list \in JournalLists : log_mkdir(list)
    \/ finish_install
    \/ \E d \in DirPaths : tamper_dir(d)
    \/ uninstall_begin
    \/ validate
    \/ remove_phase({})
    \/ restore_phase({}, "op")
    \/ \E order \in SortedOrders(store.dirsLines), F \in SUBSET (1..Len(store.dirsLines)) :
          directory_cleanup(order, F)
    \/ store_teardown(FALSE)

SpecD == InitF /\ [][NextD]_vars

\* an installation, a change of the log or of the modes of the store by
\* something else, and the uninstall, uninstall_existing_driver() and
\* do_uninstall() being two steps between which the store may be removed
NextU ==
    \/ init_backup
    \/ \E p \in Paths : do_backup(p, FALSE)
    \/ \E p \in Paths : install_file(p)
    \/ \E p \in Paths : log_install_file(p)
    \/ finish_install
    \/ \E i \in 1..Len(rec), how \in DamageKinds : damage_log(i, how)
    \/ \E which \in {"dir", "log"}, mode \in OtherModes : chmod_store(which, mode)
    \/ uninstall_existing_driver
    \/ \E what \in {"dir", "log"} : outside_removal(what)
    \/ do_uninstall_begin
    \/ validate
    \/ remove_phase({})
    \/ restore_phase({}, "op")
    \/ \E order \in SortedOrders(store.dirsLines) : directory_cleanup(order, {})
    \/ store_teardown(FALSE)

SpecU == Init /\ [][NextU]_vars

\* an installation over one file or symlink, one line of the log damaged or
\* the log cut short by something else, and the load of the log
NextP ==
    \/ init_backup
    \/ \E p \in Paths : do_backup(p, FALSE)
    \/ \E p \in Paths : install_file(p)
    \/ \E p \in Paths : install_symlink(p, TA)
    \/ \E p \in Paths : log_install_file(p)
    \/ \E p \in Paths : log_create_symlink(p, TA)
    \/ finish_install
    \/ \E i \in 1..Len(rec), how \in DamageKinds : damage_log(i, how)
    \/ \E i \in 1..Len(rec), k \in 1..2 : cut_log(i, k)
    \/ \E i \in 1..Len(rec), how \in NumberDamageKinds : damage_numbers(i, how)
    \/ \E k \in 0..1 : cut_header(k)
    \/ uninstall_begin

SpecP == InitF /\ [][NextP]_vars

\* two installer processes that call the operations of backup.c on one
\* store, in whatever order and in turns
NextC ==
    \/ init_backup
    \/ \E p \in Paths : do_backup(p, FALSE)
    \/ \E p \in Paths : install_file(p)
    \/ \E p \in Paths : log_install_file(p)
    \/ switch_process

SpecC == InitR /\ [][NextC]_vars

\* the installation, outside change and uninstall of Spec over one original
\* file or symlink at the first path and nothing at the second
SpecS == InitF /\ [][Next]_vars

\* the steps of do_uninstall(): one call that runs to its end
Uninstall ==
    \/ validate
    \/ \E F \in SUBSET (1..Len(b)) : remove_phase(F)
    \/ \E F \in SUBSET (1..Len(b)), stage \in {"op", "own", "mod"} : restore_phase(F, stage)
    \/ \E order \in SortedOrders(store.dirsLines), F \in SUBSET (1..Len(store.dirsLines)) : directory_cleanup(order, F)
    \/ \E fail \in BOOLEAN : store_teardown(fail)

\* installation and uninstall with failing calls and no outside change
NextL ==
    \/ init_backup
    \/ \E p \in Paths, fail \in BOOLEAN : do_backup(p, fail)
    \/ \E p \in Paths : install_file(p)
    \/ \E p \in Paths : install_symlink(p, TA)
    \/ \E p \in Paths : log_install_file(p)
    \/ \E p \in Paths : log_create_symlink(p, TA)
    \/ \E list \in MkdirLists : install_dirs(list)
    \/ \E list \in MkdirLists : log_mkdir(list)
    \/ finish_install
    \/ uninstall_begin
    \/ Uninstall

\* a do_uninstall() that was entered goes on to its return
SpecFLive == InitF /\ [][NextL]_vars /\ WF_vars(Uninstall)

\* ------------------------------------------------------------- claims

IsBackedUpFile(ent) == ent.num >= BACKED_UP_FILE_NUM

Restored(p) == fs[p].kind = orig[p].kind /\ fs[p].data = orig[p].data

\* C1: after an installation and an uninstall with no outside change in
\* between, every path is back in its state before the session: the
\* original content or symlink target is there, or nothing is when nothing
\* was, also when a path was swapped and installed more than once.
C1_FullReversal ==
    (pc = "Done" /\ tampers = 0) => \A p \in Paths : Restored(p)

\* C2: load returns one entry per recorded mutation, in append order, with
\* the tag, path, target, checksum, mode, uid and gid that were recorded
\* and usable set.
C2_RoundTrip ==
    (pc \in {"Install", "Idle"} /\ pending = <<>>) =>
        /\ read_backup_log_file(store).ok
        /\ read_backup_log_file(store).e = rec

Entries == 1..Len(b)

Calls(op) == {x \in 1..Len(trace) : trace[x].op = op}

AfterValidate == pc \in {"RemovePhase", "RestorePhase"}

AfterRestore == pc \in {"DirectoryCleanup", "StoreTeardown", "Done"}

UsableInstalledFile(p) ==
    {i \in Entries : b[i].ok /\ b[i].num = INSTALLED_FILE /\ b[i].filename = p}

UsableBackedUpFile(p) ==
    {i \in Entries : b[i].ok /\ IsBackedUpFile(b[i]) /\ b[i].filename = p}

\* C3: when the log holds a usable installed-file entry and a usable
\* backed-up-file entry for one path, in either order, the path holds the
\* content of the backed-up file after the uninstall; and no unlink() of an
\* installed artifact is made after a restoration.
C3_RemoveBeforeRestore ==
    /\ AfterRestore =>
          \A p \in Paths :
              (UsableInstalledFile(p) # {} /\ UsableBackedUpFile(p) # {}) =>
                  /\ fs[p].kind = "reg"
                  /\ \E j \in UsableBackedUpFile(p) : Crc(fs[p].data) = b[j].crc
    /\ \A x \in Calls("unlink") :
          \A y \in Calls("symlink") \cup Calls("rename") : x < y

\* C3, its case: the uninstall is over; the log held, all usable, the
\* entry of an installed file, after it the entry of a backed-up file of
\* the same path, and after that the entry of a file installed there again
C3_Witness ==
    /\ pc = "Done"
    /\ \E p \in Paths :
          /\ \E i, k \in UsableInstalledFile(p), j \in UsableBackedUpFile(p) : i < j /\ j < k
          /\ fs[p].kind = "reg"

Retargeted(f, i) ==
    /\ b[i].num = INSTALLED_SYMLINK
    /\ f[b[i].filename].kind = "lnk"
    /\ f[b[i].filename].data # b[i].target

\* C4: when an installed-symlink entry records the target a and the path
\* is now a symlink to another target, the validation marks that entry and
\* every backed-up-symlink entry of the path unusable, and the uninstall
\* leaves the path as it was, whatever else the log holds for it.
C4_SymlinkCrossInvalidation ==
    /\ pc = "RemovePhase" =>
          \A i \in Entries : Retargeted(fs, i) =>
              /\ ~b[i].ok
              /\ \A j \in Entries :
                    (b[j].num = BACKED_UP_SYMLINK /\ b[j].filename = b[i].filename)
                        => ~b[j].ok
    /\ pc = "Done" =>
          \A i \in Entries : Retargeted(before, i) =>
              fs[b[i].filename] = before[b[i].filename]

BadSlot(i) ==
    /\ IsBackedUpFile(b[i])
    /\ \/ ~SlotExists(b[i].num)
       \/ Crc(store.slots[b[i].num].data) # b[i].crc

Altered == "Your driver installation has been altered"

\* C5: a backed-up-file entry whose numbered file is missing or has another
\* checksum is marked unusable and the validation returns false; the
\* uninstall does not move the numbered file back, gives the warning, and
\* succeeds.
C5_ChecksumMismatch ==
    /\ AfterValidate =>
          \A i \in Entries : BadSlot(i) => (~b[i].ok /\ ~ok /\ Altered \in ui)
    /\ AfterRestore =>
          \A i \in Entries : (IsBackedUpFile(b[i]) /\ ~b[i].ok) =>
              /\ \A x \in Calls("rename") : trace[x].i # i
              /\ ~ok
              /\ Altered \in ui
              /\ pc = "Done" => (ret /\ result)

\* C5, its case: the uninstall is over and the numbered file of an entry
\* had been changed, that of another removed
C5_Witness ==
    /\ pc = "Done"
    /\ tampers > 0
    /\ \E i \in Entries : IsBackedUpFile(b[i]) /\ ~b[i].ok
    /\ \E i \in Entries : IsBackedUpFile(b[i]) /\ b[i].ok

RmdirLogged == "Failed to delete the directory"

\* C6: of two journal lines one below the other, in whatever order they
\* were written, rmdir() is called for the lower one first; a failed
\* rmdir() is logged, and rmdir() is still called for every other line.
C6_CleanupOrder ==
    /\ \A x, y \in Calls("rmdir") : IsBelow(trace[x].path, trace[y].path) => x < y
    /\ \A x \in Calls("rmdir") : ~trace[x].ok => (pc = "DirectoryCleanup" \/ RmdirLogged \in ui)
    /\ pc = "StoreTeardown" =>
          (store.dirs =>
              \A k \in Attempted(store.dirsLines) :
                  \E x \in Calls("rmdir") : trace[x].i = k /\ trace[x].path = store.dirsLines[k])

\* C6, its case: the journal names the upper directory first, the rmdir()
\* of the lower one failed and that of the upper one was still made
C6_Witness ==
    /\ pc = "StoreTeardown"
    /\ store.dirsLines = <<DX, DXY>>
    /\ \E x, y \in Calls("rmdir") :
          /\ x < y
          /\ trace[x].path = DXY /\ ~trace[x].ok
          /\ trace[y].path = DX

\* C7: on the filesystem the validation saw, a second validation leaves
\* every usable flag as the first left it and returns what the first
\* returned.
C7_ValidateIdempotent ==
    pc = "RemovePhase" =>
        /\ check_backup_log_entries(b).e = b
        /\ check_backup_log_entries(b).ret = ok

\* C7, its case: the validation found a retargeted symlink and marked the
\* backed-up symlink of its path, and left another entry usable
C7_Witness ==
    /\ pc = "RemovePhase"
    /\ ~ok
    /\ \E i \in Entries : b[i].num = BACKED_UP_SYMLINK /\ ~b[i].ok
    /\ \E i \in Entries : b[i].num = INSTALLED_SYMLINK /\ ~b[i].ok

NextPhase ==
    [Validate |-> "RemovePhase", RemovePhase |-> "RestorePhase",
     RestorePhase |-> "DirectoryCleanup", DirectoryCleanup |-> "StoreTeardown",
     StoreTeardown |-> "Done", Done |-> "Done"]

PhaseStep == pc \in DOMAIN NextPhase => pc' \in {pc, NextPhase[pc]}

\* C8: the uninstall passes its phases in the order Validate, RemovePhase,
\* RestorePhase, DirectoryCleanup, StoreTeardown, Done, skips none, never
\* goes back, and reaches Done whatever fails on the way.
C8_PhaseOrder ==
    /\ [][PhaseStep]_vars
    /\ (pc = "Validate") ~> (pc = "Done")

\* C8, its case: Done is reached after a failed validation, a failed
\* unlink(), a failed restoration, a failed rmdir() and a failed removal of
\* the store
C8_Witness ==
    /\ pc = "Done"
    /\ ~ok /\ removal_failed /\ restore_failed
    /\ \E x \in Calls("remove_directory") : ~trace[x].ok

\* C9: the uninstall reports success to its caller whatever failed and
\* whatever the validation returned; the failures only give warnings.
C9_AlwaysSuccess ==
    /\ pc = "Done" => (ret /\ result)
    /\ AfterRestore =>
          /\ ~ok => Altered \in ui
          /\ removal_failed => "Failed to remove some installed files/symlinks" \in ui
          /\ restore_failed => "Failed to restore some backed up files/symlinks" \in ui

\* C9, its case: success is reported after a failed unlink(), a failed
\* rename() and a failed rmdir()
C9_Witness ==
    /\ pc = "Done"
    /\ ret /\ result
    /\ \E x \in Calls("unlink") : ~trace[x].ok
    /\ \E x \in Calls("rename") : ~trace[x].ok
    /\ \E x \in Calls("rmdir") : ~trace[x].ok

TeardownAttemptedOnce ==
    /\ pc \in {"Validate", "RemovePhase", "RestorePhase", "DirectoryCleanup", "StoreTeardown"}
          => Calls("remove_directory") = {}
    /\ pc = "Done" =>
          /\ Cardinality(Calls("remove_directory")) = 1
          /\ trace[Len(trace)].op = "remove_directory"

\* C10: the removal of the store is attempted once, after the restoration
\* and the directory cleanup, whatever failed before; after it no previous
\* installation is reported.
C10_StoreTeardown ==
    /\ TeardownAttemptedOnce
    /\ pc = "Done" => ~get_installed_driver_version_and_descr(store).ret

\* C10 as it holds: the removal of the store is attempted once, after the
\* restoration and the directory cleanup, whatever failed before; when it
\* succeeds nothing of the store is left, the numbered files of unusable
\* entries and of failed restorations included, and no previous
\* installation is reported.
C10_StoreTeardownWhenRemoved ==
    /\ TeardownAttemptedOnce
    /\ (pc = "Done" /\ trace[Len(trace)].ok) =>
          /\ store = NoStore
          /\ ~get_installed_driver_version_and_descr(store).ret

\* C10, its case: the store is removed after a restoration failed and left
\* its numbered file there
C10_Witness ==
    /\ pc = "Done"
    /\ trace[Len(trace)].op = "remove_directory" /\ trace[Len(trace)].ok
    /\ \E x \in Calls("rename") : ~trace[x].ok
    /\ store = NoStore

Loaded == read_backup_log_file(store)

\* C11: when the first line of a record is damaged (a character that is no
\* digit before the ':', no ':', a number that is neither a tag nor at or
\* above BACKED_UP_FILE_NUM) or the log ends inside a record, the load fails
\* and gives no entry, also when well-formed records come before.
C11_LoadAllOrNothing ==
    call.op \in {"damage_log", "cut_log"} =>
        /\ pc # "Validate"
        /\ b = <<>>
        /\ LET loaded == Loaded
           IN  ~loaded.ok /\ loaded.e = <<>>

\* C11, its case: the record of the third entry was damaged or cut, two
\* well-formed records before it, and the uninstall tried to load the log
C11_Witness ==
    /\ call.op \in {"damage_log", "cut_log"}
    /\ Len(rec) = 3
    /\ Len(store.lines) >= RecordStart(rec, 3)
    /\ \/ Len(store.lines) < RecordStart(rec, 3) + RecordLines(rec[3]) - 1
       \/ store.lines[RecordStart(rec, 3)] # FirstLine(rec[3].num, rec[3].filename)
    /\ pc = "Failed"

\* C12: the load fails, gives no entry and reads no record when the
\* permission bits of the Backup Store directory are not rwx for the owner
\* alone or those of the log are not rw for the owner alone; it goes on to
\* the records only when both are.
C12_PermissionGuard ==
    (store.exists /\ store.log) =>
        /\ (\/ store.mode % (PERM_MASK + 1) # BACKUP_DIRECTORY_PERMS
            \/ store.logMode % (PERM_MASK + 1) # BACKUP_LOG_PERMS)
              => (~Loaded.ok /\ Loaded.e = <<>> /\ Loaded.line_num = 0 /\ pc # "Validate")
        /\ \/ /\ store.mode % (PERM_MASK + 1) = BACKUP_DIRECTORY_PERMS
              /\ store.logMode % (PERM_MASK + 1) = BACKUP_LOG_PERMS
           \/ ~(pc = "Validate" \/ Loaded.ok \/ Loaded.line_num # 0)

\* C12, its case: the log was made readable by group and others, records
\* in it, and the uninstall tried to load it
C12_Witness ==
    /\ call.op = "chmod_store"
    /\ store.logMode = 420
    /\ Len(rec) > 0
    /\ pc = "Failed"

\* C13: after the calls of init_backup(), do_backup(), log_install_file(),
\* log_create_symlink() and log_mkdir() in whatever order, a Backup Store
\* directory that exists has the permission bits rwx for the owner alone
\* and a log that exists has rw for the owner alone.
C13_PinnedPermissions ==
    /\ store.exists => store.mode % (PERM_MASK + 1) = BACKUP_DIRECTORY_PERMS
    /\ store.log => store.logMode % (PERM_MASK + 1) = BACKUP_LOG_PERMS

\* the indices of the records of files do_backup() moved away since the last
\* init_backup()
SwappedFiles == {i \in DOMAIN rec : IsBackedUpFile(rec[i])}

\* C14: the numbers do_backup() gave to the files it moved away since the
\* last init_backup() are strictly increasing in the order of the records,
\* hence distinct; each of these files is still in the store under its
\* number with the content it was moved away with, and every numbered file
\* in the store has a number below the one do_backup() uses next, so no
\* rename lands on a numbered file that is there.
C14_UniqueSlots ==
    /\ \A i, j \in SwappedFiles : i < j => rec[i].num < rec[j].num
    /\ \A i \in SwappedFiles :
          /\ rec[i].num \in DOMAIN store.slots
          /\ Crc(store.slots[rec[i].num].data) = rec[i].crc
    /\ \A n \in DOMAIN store.slots : n < backup_file_number

\* C14: two files were moved away after an init_backup() that followed an
\* earlier move
C14_Witness ==
    /\ Cardinality(SwappedFiles) = 2
    /\ backup_file_number = BACKED_UP_FILE_NUM + 3
    /\ store.log /\ store.logMode = BACKUP_LOG_PERMS

\* the log begins with the header init_backup() wrote
SessionBegun ==
    /\ store.log
    /\ Len(store.lines) >= 2
    /\ store.lines[1] = create_backwards_compatible_version_string(PkgVersion)
    /\ store.lines[2] = PkgDescription

\* C15: after an init_backup(), the first file do_backup() moves away is
\* numbered BACKED_UP_FILE_NUM and each later one of the session one more
\* than the one before it.
C15_CounterReset ==
    SessionBegun =>
        \A i \in SwappedFiles :
            rec[i].num = BACKED_UP_FILE_NUM
                            + Cardinality({j \in SwappedFiles : j < i})

BackupFails(o, fail) ==
    \/ o.kind \in {"dir", "fifo"}
    \/ fail /\ o.kind \in {"reg", "lnk"}

\* C17: do_backup() of a directory, of an object of another unsupported
\* type, of a regular file whose rename fails or of a symbolic link whose
\* unlink fails returns FALSE, leaves the lines of the log, the numbered
\* files and the next number as they were, and leaves the object in place.
C17_FailureLeavesLog ==
    [][\A p \in Paths : \A fail \in BOOLEAN :
          (do_backup(p, fail) /\ BackupFails(fs[p], fail))
              => /\ ~ret'
                 /\ store'.lines = store.lines
                 /\ store'.slots = store.slots
                 /\ backup_file_number' = backup_file_number
                 /\ fs' = fs]_vars

\* C17: do_backup() has just failed on an object that is still in place, in
\* a session that has records
C17_Witness ==
    /\ call.op = "do_backup"
    /\ call.kind \in {"reg", "lnk", "dir", "fifo"}
    /\ fs[call.filename].kind = call.kind
    /\ ~ret
    /\ SessionBegun
    /\ Len(rec) > 0

\* the entries read_backup_log_file() parses from the lines after line n
EntriesAfter(st, n) == ReadEntries(st.lines, n + 1, <<>>, 0)

\* the entry of a record, without the marks the validator sets
Recorded(ent) ==
    [num |-> ent.num, filename |-> ent.filename, crc |-> ent.crc,
     mode |-> ent.mode, uid |-> ent.uid, gid |-> ent.gid, target |-> ent.target]

\* C18: a do_backup() that succeeds on a regular file leaves nothing at the
\* path, the file with its content in the store under the number that was
\* next, and exactly one more record in the log, which reads back as a
\* backed-up file with that number, the path, and the checksum, mode, uid
\* and gid the file had; on a symbolic link it leaves nothing at the path,
\* takes no number, and adds exactly one record that reads back as a
\* backed-up symlink with the path and the target, mode, uid and gid the
\* link had.
C18_SwapPostcondition ==
    [][\A p \in Paths :
          (do_backup(p, FALSE) /\ store.exists /\ fs[p].kind \in {"reg", "lnk"})
              => LET o == fs[p]
                     n == backup_file_number
                     new == EntriesAfter(store', Len(store.lines))
                 IN  /\ ret'
                     /\ fs'[p] = NoObj
                     /\ SubSeq(store'.lines, 1, Len(store.lines)) = store.lines
                     /\ new.ok
                     /\ Len(new.e) = 1
                     /\ IF o.kind = "reg"
                        THEN /\ n \in DOMAIN store'.slots
                             /\ store'.slots[n].data = o.data
                             /\ Recorded(new.e[1]) =
                                   [num |-> n, filename |-> p, crc |-> Crc(o.data),
                                    mode |-> o.mode,
                                    uid |-> o.uid, gid |-> o.gid, target |-> NoLine]
                        ELSE /\ store'.slots = store.slots
                             /\ backup_file_number' = n
                             /\ Recorded(new.e[1]) =
                                   [num |-> BACKED_UP_SYMLINK, filename |-> p,
                                    crc |-> Zero32,
                                    mode |-> o.mode,
                                    uid |-> o.uid, gid |-> o.gid,
                                    target |-> o.data]]_vars

\* s is the beginning of t
IsPrefix(s, t) == Len(s) <= Len(t) /\ SubSeq(t, 1, Len(s)) = s

\* a recording operation that succeeds: do_backup() of a regular file or a
\* symbolic link, log_install_file() or log_create_symlink(), with the log
\* opened
RecordStep ==
    /\ store.exists
    /\ ret'
    /\ call'.op \in {"do_backup", "log_install_file", "log_create_symlink"}
    /\ \/ \E p \in Paths : fs[p].kind \in {"reg", "lnk"} /\ do_backup(p, FALSE)
       \/ \E p \in Paths : log_install_file(p)
       \/ \E p \in Paths : \E t \in {TA, TD} : log_create_symlink(p, t)

C20_FreshStore ==
    call.op = "init_backup" =>
        /\ store.exists
        /\ store.log
        /\ Len(store.lines) = 2
        /\ store.lines[1] = create_backwards_compatible_version_string(PkgVersion)
        /\ store.lines[2] = PkgDescription
        /\ Loaded.ok
        /\ Loaded.e = <<>>
        /\ store.slots = <<>>
        /\ ~store.dirs
        /\ store.dirsLines = <<>>

\* C20, its case: init_backup() has just returned in a process that had
\* moved two files into a store and had journalled the directories it
\* created
C20_Witness ==
    /\ call.op = "init_backup"
    /\ backup_file_number = BACKED_UP_FILE_NUM + 2
    /\ tree[DX] = "dir"
    /\ pending = <<>>

\* "1.0-", the digits of v in their order, " (", v, ")"
Encoded(v) ==
    <<"1", ".", "0", "-">> \o SelectSeq(v, isdigit) \o <<" ", "(">> \o v \o <<")">>

C22_ValidateReturn ==
    pc = "RemovePhase" => (ok <=> \A i \in Entries : b[i].ok)

\* C22, its case: the validation returned FALSE with an entry that passed,
\* an installed symlink that failed its check and the backed-up symlink of
\* the same path marked through it
C22_Witness ==
    /\ pc = "RemovePhase"
    /\ ~ok
    /\ \E i, j, k \in Entries :
          /\ b[i].ok
          /\ b[j].num = INSTALLED_SYMLINK /\ ~b[j].ok
          /\ b[k].num = BACKED_UP_SYMLINK /\ ~b[k].ok
          /\ b[k].filename = b[j].filename

\* the calls of the second loop of do_uninstall() that failed
FailedRestoreCalls ==
    {x \in 1..Len(trace) :
        /\ trace[x].op \in {"symlink", "lchown", "rename", "chown", "chmod"}
        /\ ~trace[x].ok}

\* C23: when the second loop of do_uninstall() is over, restore_failed is
\* set and the warning about files that could not be restored is given if
\* a symlink(), lchown(), rename, chown() or chmod() of that loop failed,
\* whatever check_backup_log_entries() returned.
C23_RestoreFailuresAggregated ==
    (AfterRestore /\ FailedRestoreCalls # {}) =>
        /\ restore_failed
        /\ "Failed to restore some backed up files/symlinks" \in ui


\* C24: the first loop of do_uninstall() calls unlink() once for every usable
\* InstalledFile or InstalledSymlink entry, in log order, and for nothing
\* else; it leaves the numbered files and the log alone, changes a path only
\* by a successful unlink() of it, and a failed unlink() sets removal_failed
\* without stopping the later ones
RECURSIVE InstalledInOrder(_, _)
InstalledInOrder(e, i) ==
    IF i > Len(e) THEN <<>>
    ELSE IF e[i].ok /\ e[i].num \in {INSTALLED_FILE, INSTALLED_SYMLINK}
         THEN <<i>> \o InstalledInOrder(e, i + 1)
         ELSE InstalledInOrder(e, i + 1)

UnlinkCalls(old, new) == SubSeq(new, Len(old) + 1, Len(new))

RemoveStep ==
    (pc = "RemovePhase" /\ pc' = "RestorePhase") =>
        LET due == InstalledInOrder(b, 1)
            calls == UnlinkCalls(trace, trace')
        IN  /\ Len(calls) = Len(due)
            /\ \A x \in 1..Len(due) :
                    /\ calls[x].op = "unlink"
                    /\ calls[x].i = due[x]
                    /\ calls[x].path = b[due[x]].filename
            /\ store' = store
            /\ b' = b
            /\ removal_failed' = (\E x \in 1..Len(calls) : ~calls[x].ok)
            /\ \A q \in Paths :
                    fs'[q] # fs[q] =>
                        /\ fs'[q] = NoObj
                        /\ \E x \in 1..Len(calls) : calls[x].path = q /\ calls[x].ok

C24_RemoveSelective == [][RemoveStep]_vars

\* the first loop ended with removal_failed set, a failed unlink() having been
\* followed by a successful one
C24_Witness ==
    /\ pc = "RestorePhase"
    /\ removal_failed
    /\ \E x, y \in 1..Len(trace) :
            /\ x < y
            /\ trace[x].op = "unlink" /\ ~trace[x].ok
            /\ trace[y].op = "unlink" /\ trace[y].ok


\* C25: once the directories were cleaned up, rmdir() was called exactly once
\* for every distinct line of the journal that is neither empty nor the
\* directory of the backups, and for nothing else; a directory named twice
\* gave one call and no failure of its own
RmdirCalls == {x \in 1..Len(trace) : trace[x].op = "rmdir"}

JournalPaths ==
    {store.dirsLines[k] : k \in Attempted(store.dirsLines)}

C25_OncePerPath ==
    (pc = "StoreTeardown" /\ store.dirs) =>
        /\ \A x \in RmdirCalls : trace[x].path \in JournalPaths
        /\ \A d \in JournalPaths :
                Cardinality({x \in RmdirCalls : trace[x].path = d}) = 1

\* C26: with no journal in the store the step that cleans up the directories
\* removes nothing, gives no message and goes on to the removal of the store
JournalAbsentStep ==
    (pc = "DirectoryCleanup" /\ ~store.dirs /\ pc' # pc) =>
        /\ tree' = tree
        /\ ui' = ui
        /\ pc' = "StoreTeardown"

C26_AbsentJournalSilent == [][JournalAbsentStep]_vars


\* C27: when do_uninstall() finds no backup directory or cannot load the log
\* it returns FALSE to uninstall_existing_driver(), which reports the failure
\* and not a completed uninstallation; no path, directory or call changes,
\* the store stays as it was, and nothing of the uninstall runs afterwards
LoadFailureStep ==
    /\ (pc = "DoUninstall" /\ pc' # pc /\ (~store.exists \/ ~Loaded.ok)) =>
            /\ pc' = "Failed"
            /\ ret' = FALSE
            /\ "Uninstallation failed." \in ui'
            /\ "Uninstallation of existing driver is complete." \notin ui'
    /\ (pc' = "Failed") =>
            /\ fs' = fs
            /\ store' = store
            /\ tree' = tree
            /\ trace' = trace /\ trace = <<>>

C27_LoadFailureEscalated == [][LoadFailureStep]_vars

\* C27, its case: the backup directory was gone when do_uninstall() looked
\* for it, with a file of the installation still in place
C27_Witness ==
    /\ pc = "Failed"
    /\ ~store.exists
    /\ "No driver backed up." \in ui
    /\ \E i \in 1..Len(rec) :
            rec[i].num = INSTALLED_FILE /\ fs[rec[i].filename].kind = "reg"


\* C28: when the load of a log with the right modes fails, the line number
\* it reports is the number, counted from 1, of the first line that does not
\* decode or is missing: a header line, the first line of a record or a
\* later line of a record
RECURSIVE FirstBadLine(_, _)
FirstBadLine(lines, c) ==
    LET line == get_next_line(lines, c)
        first == parse_first_line(line)
        l2 == get_next_line(lines, c + 1)
        l3 == get_next_line(lines, c + 2)
    IN  IF line = NoLine THEN 0
        ELSE IF ~first.ok THEN c
        ELSE IF first.num = INSTALLED_FILE THEN
            IF l2 = NoLine \/ ~parse_crc(l2).ok THEN c + 1
            ELSE FirstBadLine(lines, c + 2)
        ELSE IF first.num = INSTALLED_SYMLINK THEN
            IF l2 = NoLine THEN c + 1 ELSE FirstBadLine(lines, c + 2)
        ELSE IF first.num = BACKED_UP_SYMLINK THEN
            IF l2 = NoLine THEN c + 1
            ELSE IF l3 = NoLine \/ ~parse_mode_uid_gid(l3).ok THEN c + 2
            ELSE FirstBadLine(lines, c + 3)
        ELSE IF first.num < BACKED_UP_FILE_NUM THEN c
        ELSE IF l2 = NoLine \/ ~parse_crc_mode_uid_gid(l2).ok THEN c + 1
        ELSE FirstBadLine(lines, c + 2)

FailingLine(lines) ==
    IF get_next_line(lines, 1) = NoLine THEN 1
    ELSE IF get_next_line(lines, 2) = NoLine THEN 2
    ELSE FirstBadLine(lines, 3)

ModesRight ==
    /\ store.exists /\ store.log
    /\ same_perms(store.mode, BACKUP_DIRECTORY_PERMS)
    /\ same_perms(store.logMode, BACKUP_LOG_PERMS)

C28_LineNumber ==
    LET loaded == Loaded
    IN  (ModesRight /\ ~loaded.ok) => loaded.line_num = FailingLine(store.lines)

\* C29: a log loads only if the line with the numbers of every record holds
\* the right count of numbers, each of one digit or more and of digits alone,
\* with one space between them: one for an installed file, three for a
\* backed-up symlink, four for a backed-up file
RECURSIVE StrictNumbers(_, _, _)
StrictNumbers(line, i, n) ==
    LET e == DigitRunEnd(line, i)
    IN  /\ e > i
        /\ IF n = 1 THEN e = Len(line) + 1
           ELSE /\ e <= Len(line)
                /\ line[e] = " "
                /\ StrictNumbers(line, e + 1, n - 1)

NumberCount(ent) ==
    IF ent.num = INSTALLED_FILE THEN 1
    ELSE IF ent.num = BACKED_UP_SYMLINK THEN 3
    ELSE 4

C29_StrictDecoding ==
    (ModesRight /\ Loaded.ok) =>
        \A i \in 1..Len(rec) :
            (rec[i].num # INSTALLED_SYMLINK /\ NumberLine(rec, i) <= Len(store.lines)) =>
                StrictNumbers(store.lines[NumberLine(rec, i)], 1, NumberCount(rec[i]))


\* C30: with two processes on one store a numbered file holds what the last
\* record of its number moved there: when two records of backed-up files
\* carry one number, the file of the earlier one has been overwritten
SlotHolds(n, ent) ==
    /\ n \in DOMAIN store.slots
    /\ Crc(store.slots[n].data) = ent.crc
    /\ store.slots[n].mode = ent.mode
    /\ store.slots[n].uid = ent.uid
    /\ store.slots[n].gid = ent.gid

C30_LastWriterKeepsSlot ==
    \A j \in SwappedFiles :
        (\A k \in SwappedFiles : k > j => rec[k].num # rec[j].num) =>
            SlotHolds(rec[j].num, rec[j])

\* C30, its case: two records of backed-up files of different paths carry one
\* number, the log loads with both, and the numbered file is not the file of
\* the first
C30_Witness ==
    /\ Loaded.ok
    /\ \E i, j \in SwappedFiles :
            /\ i < j
            /\ rec[i].num = rec[j].num
            /\ rec[i].filename # rec[j].filename
            /\ ~SlotHolds(rec[i].num, rec[i])
            /\ Len(Loaded.e) >= j
            /\ Loaded.e[i].num = Loaded.e[j].num
            /\ fs[rec[i].filename].kind = "none"


\* C31: a path that holds a file when the uninstall begins, with an
\* InstalledFile entry that the validation marked not usable, is as it was
\* once the uninstall is done, whatever other entries the log holds for it
C31_ModifiedFileUntouched ==
    pc = "Done" =>
        \A i \in Entries :
            (b[i].num = INSTALLED_FILE /\ ~b[i].ok /\ before[b[i].filename].kind = "reg") =>
                fs[b[i].filename] = before[b[i].filename]


\* C32: an InstalledSymlink entry whose path is, when the uninstall begins,
\* a symlink with the recorded target is marked usable by the validation and
\* unlinked by the first loop, whether the target exists or not
UnchangedLink(ent) ==
    /\ ent.num = INSTALLED_SYMLINK
    /\ before[ent.filename].kind = "lnk"
    /\ before[ent.filename].data = ent.target

C32_DanglingLinkUninstalled ==
    /\ pc = "RemovePhase" => \A i \in Entries : UnchangedLink(b[i]) => b[i].ok
    /\ pc = "RestorePhase" =>
            \A i \in Entries :
                UnchangedLink(b[i]) =>
                    \E x \in 1..Len(trace) : trace[x].op = "unlink" /\ trace[x].i = i


\* C33: check_backup_log_entries() changes nothing but ok flags: the paths,
\* the store with its log, journal and numbered files, and the directories
\* stay as they are, and the entries keep their number, their order and
\* every field other than ok
ValidateFrame ==
    (pc = "Validate" /\ pc' = "RemovePhase") =>
        /\ fs' = fs
        /\ store' = store
        /\ tree' = tree
        /\ Len(b') = Len(b)
        /\ \A i \in 1..Len(b) : [b'[i] EXCEPT !.ok = TRUE] = [b[i] EXCEPT !.ok = TRUE]

C33_ValidateFrame == [][ValidateFrame]_vars

\* C33, its case: a validation of three entries that cleared the flag of an
\* installed symlink with another target and, through it, that of the
\* backed-up symlink of the path, and left the third entry usable
C33_Witness ==
    /\ pc = "RemovePhase"
    /\ Len(b) = 3
    /\ Cardinality({i \in Entries : ~b[i].ok}) = 2
    /\ \E j, k \in Entries :
          /\ b[j].num = INSTALLED_SYMLINK /\ ~b[j].ok
          /\ fs[b[j].filename].kind = "lnk" /\ fs[b[j].filename].data # b[j].target
          /\ b[k].num = BACKED_UP_SYMLINK /\ ~b[k].ok
          /\ b[k].filename = b[j].filename
          /\ b[k].target # NoLine


\* C34: when an InstalledSymlink entry is not usable because nothing is at
\* its path, or what is there is no symlink, every BackedUpSymlink entry of
\* the path stays usable and, once the uninstall is done, the path is the
\* symlink of such an entry, with its recorded target and owner
NotByMismatch(ent) ==
    /\ ent.num = INSTALLED_SYMLINK
    /\ ~ent.ok
    /\ before[ent.filename].kind # "lnk"

LinkOf(ent, o) ==
    /\ o.kind = "lnk"
    /\ o.data = ent.target
    /\ o.uid = ent.uid
    /\ o.gid = ent.gid

C34_OriginalLinkRecreated ==
    pc = "Done" =>
        \A j, k \in Entries :
            (/\ NotByMismatch(b[j])
             /\ b[k].num = BACKED_UP_SYMLINK
             /\ b[k].filename = b[j].filename) =>
                /\ b[k].ok
                /\ \E m \in Entries :
                      /\ b[m].num = BACKED_UP_SYMLINK
                      /\ b[m].filename = b[j].filename
                      /\ LinkOf(b[m], fs[b[j].filename])


\* C34, as the code has it: check_backup_log_entries() clears the flag of a
\* BackedUpSymlink entry only for an InstalledSymlink entry of the same path
\* whose symlink is there, with a target that exists, and has another target
\* than the recorded one; and the second loop, for the first usable backed-up
\* entry of a path when that entry is a symlink, makes the symlink with the
\* recorded target and owner if nothing is at the path and no backed-up file
\* of the path follows, and leaves the path as it is if something is there
\* and the path has no usable backed-up file
Mismatched(ent) ==
    /\ ent.num = INSTALLED_SYMLINK
    /\ access(ent.filename)
    /\ get_symlink_target(ent.filename) # NoLine
    /\ get_symlink_target(ent.filename) # ent.target

UsableFileOf(q, m) ==
    b[m].ok /\ b[m].num >= BACKED_UP_FILE_NUM /\ b[m].filename = q

SymlinkStep ==
    /\ (pc = "Validate" /\ pc' = "RemovePhase") =>
            \A k \in 1..Len(b) :
                (b[k].num = BACKED_UP_SYMLINK /\ ~b'[k].ok) =>
                    \E j \in 1..Len(b) : Mismatched(b[j]) /\ b[j].filename = b[k].filename
    /\ (pc = "RestorePhase" /\ pc' = "DirectoryCleanup") =>
            \A k \in 1..Len(b) :
                (/\ b[k].num = BACKED_UP_SYMLINK
                 /\ b[k].ok
                 /\ \A m \in 1..(k - 1) :
                        ~(b[m].ok /\ b[m].filename = b[k].filename
                                  /\ b[m].num \notin {INSTALLED_FILE, INSTALLED_SYMLINK})) =>
                    IF fs[b[k].filename].kind = "none"
                    THEN (\A m \in 1..Len(b) : ~UsableFileOf(b[k].filename, m))
                            => LinkOf(b[k], fs'[b[k].filename])
                    ELSE (\A m \in 1..Len(b) : ~UsableFileOf(b[k].filename, m))
                            => fs'[b[k].filename] = fs[b[k].filename]

C34_OnlyOnMismatch == [][SymlinkStep]_vars

\* C34, its case: the installed symlink was removed by something else, its
\* entry is not usable, the backed-up symlink of the path is, and the
\* uninstall has made the original symlink again
C34_Witness ==
    /\ pc = "Done"
    /\ tampers = 1
    /\ \E j, k \in Entries :
          /\ NotByMismatch(b[j])
          /\ before[b[j].filename].kind = "none"
          /\ b[k].num = BACKED_UP_SYMLINK /\ b[k].ok
          /\ b[k].filename = b[j].filename
          /\ LinkOf(b[k], fs[b[k].filename])
          /\ fs[b[k].filename] = orig[b[k].filename]


\* C35: the checksum, uid and gid that do_backup() wrote into the record of
\* a backed-up file or symlink are read back by read_backup_log_file() as
\* the values the file or symlink had, whatever 32-bit values they are
C35_OwnerRoundTrip ==
    (pc \in {"Install", "Idle"} /\ pending = <<>> /\ tampers = 0) =>
        LET loaded == Loaded
        IN  \A i \in 1..Len(rec) :
                rec[i].num \notin {INSTALLED_FILE, INSTALLED_SYMLINK} =>
                    /\ loaded.ok
                    /\ Len(loaded.e) >= i
                    /\ loaded.e[i].crc = rec[i].crc
                    /\ loaded.e[i].uid = rec[i].uid
                    /\ loaded.e[i].gid = rec[i].gid

====
